---- MODULE Spec2Model ----
(***************************************************************************)
(* Product import batch-job strategy (ProductImportStrategy): the          *)
(* classifier getImportInstructions, the Redis staging of the four         *)
(* operation batches, and the transactional commit processJob.             *)
(* Product export batch-job strategy (ProductExportStrategy): the shape    *)
(* discovery preProcessBatchJob, the header and its column descriptors,    *)
(* and the paged writer processJob.                                        *)
(***************************************************************************)
EXTENDS Integers, Sequences, FiniteSets, TLC

\* ---------------------------------------------------------------- bounds
\* Longest CSV file (number of data rows) of a job.
MaxRows == 2
\* Number of clock ticks the model lets pass.
MaxTicks == 2

\* ------------------------------------------------------ program constants
BATCH_SIZE == 100
\* redis "EX" argument of setImportDataToRedis, in seconds.
EX == 60 * 60

\* ------------------------------------------------------------ value sets
Jobs == {"job_1", "job_2"}

\* enum OperationType
ProductCreate == "PRODUCT_CREATE"
ProductUpdate == "PRODUCT_UPDATE"
VariantCreate == "VARIANT_CREATE"
VariantUpdate == "VARIANT_UPDATE"
OperationType == {ProductCreate, ProductUpdate, VariantCreate, VariantUpdate}

\* Own-property order of the object literal getImportInstructions returns:
\* the order in which `for (const op in results)` visits the batches.
ResultKeys == <<ProductCreate, VariantCreate, ProductUpdate, VariantUpdate>>

\* The phases with the two variant phases exchanged.
ProcessPhasesVariantsSwapped ==
  <<ProductCreate, ProductUpdate, VariantUpdate, VariantCreate>>

\* Order of the four calls in processJob.
ProcessPhases == <<ProductCreate, ProductUpdate, VariantCreate, VariantUpdate>>

\* Property names every JS object inherits from Object.prototype (a
\* representative one): `seenProducts = {}` answers them before any row is seen.
ObjectPrototypeKeys == {"constructor"}

Handles == {"shirt", "constructor"}

\* regionRepo content: region name -> region id.
RegionIdByName == [n \in {"denmark"} |-> "reg_dk"]

\* shippingProfileService_.retrieveDefault()
DefaultShippingProfile == [id |-> "default_shipping_profile"]

\* ---------------------------------------------------------- parsed rows
\* A parsed row is a JS object: a function from the keys it has to values.
Has(row, key) == key \in DOMAIN row

\* JS truthiness of row[key] for string/absent values.
Truthy(row, key) == Has(row, key) /\ row[key] \notin {"", "undefined"}

\* Price entries as the schema reducers build them.
CurrencyPrice(amount, code) == [amount |-> amount, currency_code |-> code]
RegionPrice(amount, name) == [amount |-> amount, regionName |-> name]

\* A row with the given cells; "" for pid/vid means the cell is absent,
\* hasPrices = FALSE that the file has no price column at all.
ParsedRow(handle, pid, vid, hasPrices, prices) ==
  LET keys == {"product.handle"}
              \cup (IF pid # "" THEN {"product.id"} ELSE {})
              \cup (IF vid # "" THEN {"variant.id"} ELSE {})
              \cup (IF hasPrices THEN {"variant.prices"} ELSE {})
  IN [k \in keys |->
        CASE k = "product.handle" -> handle
          [] k = "product.id" -> pid
          [] k = "variant.id" -> vid
          [] k = "variant.prices" -> prices]

\* row[key] = value (adds the key when the row lacks it)
SetKey(row, key, value) ==
  [k \in DOMAIN row \cup {key} |-> IF k = key THEN value ELSE row[k]]

SeqsUpTo(S, n) == UNION {[1..m -> S] : m \in 0..n}
Range(seq) == {seq[i] : i \in DOMAIN seq}

\* ---------------------------------------------------------------- errors
NoError == [type |-> "", message |-> ""]
MedusaError(type, message) == [type |-> type, message |-> message]
INVALID_DATA == "invalid_data"
\* A TypeError of the JS runtime (property read of undefined).
TypeError == [type |-> "TypeError", message |-> ""]

\* ------------------------------------------------------ handleVariantPrices
\* regionRepo.findOne({ where: { name } }): the id, or "" when there is none.
FindRegionId(name) ==
  IF name \in DOMAIN RegionIdByName THEN RegionIdByName[name] ELSE ""

\* `if (p.regionName)`
HasRegionName(p) == Has(p, "regionName") /\ p.regionName # ""

\* A price record that keeps the region name and is given no region id.
PriceRecordUnresolved(p) ==
  IF HasRegionName(p)
    THEN [amount |-> p.amount, regionName |-> p.regionName]
    ELSE [amount |-> p.amount,
          currency_code |-> IF Has(p, "currency_code") THEN p.currency_code
                                                       ELSE "undefined"]

\* The record built for one price whose region (if named) exists.
PriceRecord(p) ==
  IF HasRegionName(p)
    THEN [amount |-> p.amount, region_id |-> FindRegionId(p.regionName)]
    ELSE [amount |-> p.amount,
          currency_code |-> IF Has(p, "currency_code") THEN p.currency_code
                                                       ELSE "undefined"]

\* Every named region taken as found.
NoMissingRegion(prices) == 0

\* Position of the first price naming a region that does not exist, 0 if none.
FirstMissingRegion(prices) ==
  LET bad == {i \in 1..Len(prices) :
                 HasRegionName(prices[i]) /\ FindRegionId(prices[i].regionName) = ""}
  IN IF bad = {} THEN 0 ELSE CHOOSE i \in bad : \A j \in bad : i <= j

\* handleVariantPrices: [error, row]; the row is reassigned only when every
\* price resolved.
HandleVariantPrices(row) ==
  LET prices == row["variant.prices"]
      bad == FirstMissingRegion(prices)
  IN IF bad # 0
       THEN [error |-> MedusaError(INVALID_DATA,
                         "Trying to set a price for a region "
                           \o prices[bad].regionName \o " that doesn't exist"),
             row |-> row]
       ELSE [error |-> NoError,
             row |-> SetKey(row, "variant.prices",
                            [i \in 1..Len(prices) |-> PriceRecord(prices[i])])]

\* --------------------------------------------------- getImportInstructions
\* Locals of one getImportInstructions call. The batches hold references to
\* the row objects of csvData: positions in csvData.
NewInstructions(csvData) ==
  [csvData |-> csvData, pos |-> 0, seenProducts |-> {},
   productsCreate |-> <<>>, productsUpdate |-> <<>>,
   variantsCreate |-> <<>>, variantsUpdate |-> <<>>,
   error |-> NoError]

\* `seenProducts[handle]` on a plain object literal.
SeenLookup(seenProducts, handle) ==
  handle \in seenProducts \/ handle \in ObjectPrototypeKeys

\* The variant test reading a key no row has.
IsVariantUpdateWrongKey(row) == Truthy(row, "variant.variant.id")

\* `row["variant.id"]`
IsVariantUpdate(row) == Truthy(row, "variant.id")

\* `row["product.product.id"]`
IsProductUpdate(row) == Truthy(row, "product.product.id")

\* Lines 211-215.
RouteVariant(c, i) ==
  IF IsVariantUpdate(c.csvData[i])
    THEN [c EXCEPT !.variantsUpdate = Append(@, i)]
    ELSE [c EXCEPT !.variantsCreate = Append(@, i)]

\* Lines 217-223.
RouteProduct(c, i) ==
  LET row == c.csvData[i]
      handle == row["product.handle"]
  IN IF SeenLookup(c.seenProducts, handle)
       THEN c
       ELSE LET stamped == SetKey(row, "product.profile_id", DefaultShippingProfile)
                d == [c EXCEPT !.csvData[i] = stamped,
                               !.seenProducts = @ \cup {handle}]
            IN IF IsProductUpdate(stamped)
                 THEN [d EXCEPT !.productsUpdate = Append(@, i)]
                 ELSE [d EXCEPT !.productsCreate = Append(@, i)]

\* One iteration of the loop over csvData (row c.pos + 1).
ImportLoopBody(c) ==
  LET i == c.pos + 1
      row == c.csvData[i]
  IN IF ~Has(row, "variant.prices")
       THEN [c EXCEPT !.error = TypeError]
       ELSE LET priced == IF Len(row["variant.prices"]) # 0
                            THEN HandleVariantPrices(row)
                            ELSE [error |-> NoError, row |-> row]
            IN IF priced.error # NoError
                 THEN [c EXCEPT !.error = priced.error]
                 ELSE RouteProduct(
                        RouteVariant([c EXCEPT !.csvData[i] = priced.row,
                                               !.pos = i], i), i)

\* The whole loop: the locals when getImportInstructions returns or throws.
RECURSIVE RunImportLoop(_)
RunImportLoop(c) ==
  IF c.error # NoError \/ c.pos = Len(c.csvData)
    THEN c
    ELSE RunImportLoop(ImportLoopBody(c))

GetImportInstructions(csvData) == RunImportLoop(NewInstructions(csvData))

\* results[op] of the returned object, as row positions.
BatchRefs(c, op) ==
  CASE op = ProductCreate -> c.productsCreate
    [] op = ProductUpdate -> c.productsUpdate
    [] op = VariantCreate -> c.variantsCreate
    [] op = VariantUpdate -> c.variantsUpdate

\* results[op] of the returned object, as rows.
Batch(c, op) == [k \in 1..Len(BatchRefs(c, op)) |-> c.csvData[BatchRefs(c, op)[k]]]

\* ------------------------------------------------- JSON and the redis store
\* Keys whose value may be `undefined` in a row object / a price record.
Undefined == "undefined"

\* JSON.stringify of one object with string-valued keys `scalars`: a key
\* whose value is undefined is left out.
DropUndefined(obj, scalars) ==
  [k \in {k \in DOMAIN obj : ~(k \in scalars /\ obj[k] = Undefined)} |-> obj[k]]

PriceScalars == {"amount", "currency_code", "region_id", "regionName"}
RowScalars == {"product.handle", "product.id", "variant.id"}

JSONRow(row) ==
  LET r == DropUndefined(row, RowScalars)
  IN IF Has(r, "variant.prices")
       THEN SetKey(r, "variant.prices",
                   [i \in 1..Len(r["variant.prices"]) |->
                      DropUndefined(r["variant.prices"][i], PriceScalars)])
       ELSE r

\* JSON.stringify(rows): the text, modelled as the tagged list of the
\* serialised rows.
JSONStringify(rows) == [json |-> [i \in 1..Len(rows) |-> JSONRow(rows[i])]]

\* The text "[]".
EmptyArrayText == [json |-> <<>>]

JSONParse(text) == text.json

\* redis GET of a key that is absent or expired.
Null == [null |-> TRUE]

\* A key that leaves the job id out.
RedisKeyWithoutJob(batchJobId, op) == "pij_" \o ":" \o op

\* `pij_${batchJobId}:${op}`
RedisKey(batchJobId, op) == "pij_" \o batchJobId \o ":" \o op

\* redisClient_.set(key, value, "EX", seconds) at time t.
RedisSet(store, t, key, value, seconds) ==
  [k \in DOMAIN store \cup {key} |->
     IF k = key THEN [value |-> value, expireAt |-> t + seconds] ELSE store[k]]

\* An entry that never expires.
RedisLiveForever(store, t, key) == key \in DOMAIN store

\* An entry is live until its expiry time.
RedisLive(store, t, key) == key \in DOMAIN store /\ t < store[key].expireAt

\* redisClient_.get(key) at time t.
RedisGet(store, t, key) ==
  IF RedisLive(store, t, key) THEN store[key].value ELSE Null

\* redisClient_.del(key): removes the key of exactly that name.
RedisDel(store, key) == [k \in DOMAIN store \ {key} |-> store[k]]

\* Number of live keys redisClient_.del(key) removes at time t.
RedisDelCount(store, t, key) == IF RedisLive(store, t, key) THEN 1 ELSE 0

\* getImportDataFromRedis
GetImportDataFromRedis(store, t, batchJobId, op) ==
  LET text == RedisGet(store, t, RedisKey(batchJobId, op))
  IN JSONParse(IF text = Null THEN EmptyArrayText ELSE text)

\* The key clearRedisRecords hands to DEL.
ClearKey(batchJobId) == "pij_" \o batchJobId \o ":*"

\* ------------------------------------------------ row data for the services
\* key.split("product.")[1] / key.split("variant.")[1] for the keys of a row.
ProductKeys ==
  [k \in {"product.handle", "product.id", "product.profile_id"} |->
     CASE k = "product.handle" -> "handle"
       [] k = "product.id" -> "id"
       [] k = "product.profile_id" -> "profile_id"]
VariantKeys ==
  [k \in {"variant.id", "variant.prices", "variant.options"} |->
     CASE k = "variant.id" -> "id"
       [] k = "variant.prices" -> "prices"
       [] k = "variant.options" -> "options"]

\* row[key] with `undefined` for a key the row lacks (string-valued keys).
ValueOf(row, key) == IF Has(row, key) THEN row[key] ELSE Undefined

TransformProductData(data) ==
  LET picked == DOMAIN data \cap DOMAIN ProductKeys
  IN [k \in {ProductKeys[p] : p \in picked} |->
        data[CHOOSE p \in picked : ProductKeys[p] = k]]

TransformVariantData(data) ==
  LET picked == DOMAIN data \cap DOMAIN VariantKeys
      ret == [k \in {VariantKeys[p] : p \in picked} |->
                data[CHOOSE p \in picked : VariantKeys[p] = k]]
  IN SetKey(SetKey(ret, "product.handle", ValueOf(data, "product.handle")),
            "product.options", ValueOf(data, "product.options"))

\* The error handleImportError_ throws for a row.
ImportError(row) ==
  MedusaError(INVALID_DATA,
    "Error while processing row with: product id: " \o ValueOf(row, "product.id")
      \o ", product handle: " \o ValueOf(row, "product.handle")
      \o ", variant id: " \o ValueOf(row, "variant.id")
      \o " variant sku: " \o ValueOf(row, "variant.sku"))

\* ------------------------------------------------------------------ state
VARIABLES
  now,              \* clock of the redis server, in seconds
  redis,            \* the staging store: key -> [value, expireAt]
  csvFile,          \* per job: the rows csvParser_.buildData yields for its file
  jobStage,         \* per job: created / pre_processed / processed / failed
  jobContext,       \* per job: batchJob.context
  pc,               \* position of the strategy's running call ("idle": none)
  cur,              \* the job of the running call
  cls,              \* locals of getImportInstructions
  stagePos,         \* setImportDataToRedis: position in ResultKeys
  calls,            \* calls the running/last preProcessBatchJob made
  phase,            \* processJob: position in ProcessPhases
  phaseOps,         \* the batches the phases of the running processJob read
  opPos,            \* rows of the running phase's batch already handled
  classified,       \* per job: the batches its last getImportInstructions returned
  stagedAt,         \* per job: time its batches were written to redis (-1: never)
  startedAt,        \* per job: time processJob was called (-1: not yet)
  applied,          \* per job: the service calls that succeeded, in order
  failedAt,         \* per job: the staged row whose service call failed
  thrown,           \* per job: error its last call raised (NoError: none)
  processedCounter, \* this.processedCounter
  db,               \* committed product handles
  tx,               \* product handles created in the open transaction
  finalizing,       \* jobs whose finalize_ awaits batchJobService_.retrieve
  inflight,         \* batchJobService_.update calls not yet applied
  persisted,        \* per job: the progress updates applied to its context
  lastDel,          \* last clearRedisRecords call: [job, removed]
  runs              \* per job: its preProcessBatchJob calls, and the writes
                    \* (staging entries, context) the last of them has made

\* The state of the product export strategy and of what it works on.
VARIABLES
  catalog,           \* the products the listing service finds, in its order
  exportJob,         \* per export job: status, context and result
  columnDescriptors, \* the column descriptor map, in insertion order
  epc,               \* position of the export strategy's running call
  ecur,              \* the export job of the running call
  eloc,              \* locals of the running preProcessBatchJob / processJob
  uploads            \* the files of the file service, by file key

importVars ==
  <<now, redis, csvFile, jobStage, jobContext, pc, cur, cls, stagePos,
    calls, phase, phaseOps, opPos, classified, stagedAt, startedAt, applied,
    failedAt, thrown, processedCounter, db, tx, finalizing, inflight,
    persisted, lastDel, runs>>

exportVars == <<catalog, exportJob, columnDescriptors, epc, ecur, eloc, uploads>>

\* The state of the schema parser at work on one line of a file, and of the
\* variant created of the line.
VARIABLES
  csvLine,          \* the raw line: its header names in file order, its cells
  column,           \* number of columns of the line already reduced
  builtLine,        \* the row built of the line so far
  createdVariant    \* createVariants: the options of the variant it creates

parserVars == <<csvLine, column, builtLine, createdVariant>>

vars == <<importVars, exportVars, parserVars>>

\* Half the lifetime of a staging entry passes per tick.
TickSeconds == EX \div 2

NoJob == ""
NoRow == [op |-> "", pos |-> 0, caught |-> NoError]
\* The locals of a call that is not running.
NoInstructions == NewInstructions(<<>>)
NoBatches == [op \in OperationType |-> <<>>]
NoCalls == [getImportInstructions |-> 0, set |-> 0]

\* ----------------------------------------------------------------- inputs
PriceCells ==
  {<<>>,
   <<CurrencyPrice("110", "DKK")>>,
   <<RegionPrice("130", "denmark"), CurrencyPrice("110", "DKK")>>,
   <<CurrencyPrice("110", "DKK"), RegionPrice("100", "france")>>}

\* Rows of files with price columns.
PricedRows ==
  {ParsedRow(h, pid, vid, TRUE, pr) :
     h \in Handles, pid \in {"", "prod_1"}, vid \in {"", "variant_1"},
     pr \in PriceCells}

\* Rows of files without any price column.
UnpricedRows ==
  {ParsedRow(h, "", vid, FALSE, <<>>) : h \in {"shirt"}, vid \in {"", "variant_1"}}

ClassifierRows == PricedRows \cup UnpricedRows

\* Rows that classify without error, for the staging and commit phases.
CommitRows ==
  {ParsedRow(c[1], c[2], c[3], TRUE, <<CurrencyPrice("110", "DKK")>>) :
     c \in {<<"shirt", "", "">>, <<"shirt", "prod_1", "variant_1">>,
            <<"constructor", "", "">>}}

InitCommon ==
  /\ now = 0
  /\ redis = <<>>
  /\ jobStage = [j \in Jobs |-> "created"]
  /\ jobContext = [j \in Jobs |-> [fileKey |-> "csv.key"]]
  /\ pc = "idle"
  /\ cur = NoJob
  /\ cls = NoInstructions
  /\ stagePos = 0
  /\ calls = NoCalls
  /\ phase = 0
  /\ phaseOps = <<>>
  /\ opPos = 0
  /\ classified = [j \in Jobs |-> NoBatches]
  /\ stagedAt = [j \in Jobs |-> -1]
  /\ startedAt = [j \in Jobs |-> -1]
  /\ applied = [j \in Jobs |-> <<>>]
  /\ failedAt = [j \in Jobs |-> NoRow]
  /\ thrown = [j \in Jobs |-> NoError]
  /\ db = {}
  /\ tx = {}
  /\ finalizing = {}
  /\ inflight = {}
  /\ persisted = [j \in Jobs |-> <<>>]
  /\ lastDel = [job |-> NoJob, removed |-> 0]
  /\ runs = [j \in Jobs |-> [count |-> 0, writes |-> 0]]

\* The file of job_1 varies; job_2 imports one new product with one variant.
Files(first, second) ==
  {[j \in Jobs |-> IF j = "job_1" THEN f[1] ELSE f[2]] : f \in first \X second}

\* A strategy object that has not handled a row yet.
FreshStrategy == processedCounter = 0

\* No line is being parsed.
NoLine == [header |-> <<>>, cells |-> <<>>]
NoVariant == [error |-> NoError, options |-> <<>>, done |-> FALSE]
NoParser ==
  /\ csvLine = NoLine
  /\ column = 0
  /\ builtLine = <<>>
  /\ createdVariant = NoVariant

\* The export strategy is not called.
NoExport ==
  /\ catalog = <<>>
  /\ exportJob = <<>>
  /\ columnDescriptors = <<>>
  /\ epc = "idle"
  /\ ecur = NoJob
  /\ eloc = <<>>
  /\ uploads = <<>>

Init ==
  /\ InitCommon
  /\ FreshStrategy
  /\ NoExport
  /\ NoParser
  /\ csvFile \in Files(SeqsUpTo(CommitRows, MaxRows),
                       {<<ParsedRow("shirt", "", "", TRUE,
                                    <<CurrencyPrice("110", "DKK")>>)>>})

InitClassify ==
  /\ InitCommon
  /\ FreshStrategy
  /\ NoExport
  /\ NoParser
  /\ csvFile \in Files(SeqsUpTo(ClassifierRows, MaxRows), {<<>>})

\* ------------------------------------------------------ preProcessBatchJob
\* batchJobService_.update(id, { context }): the given keys are merged into
\* the stored context.
MergeContext(ctx, key, value) == SetKey(ctx, key, value)

\* csvParser_.buildData: a row whose required column (Product Handle) is empty
\* fails the whole call with a schema-validation error.
SCHEMA_VALIDATION == "schema_validation"
BuildData(data) ==
  LET empty == {i \in DOMAIN data : data[i]["product.handle"] = ""}
  IN IF empty = {}
       THEN [error |-> NoError, rows |-> data]
       ELSE [error |-> MedusaError(SCHEMA_VALIDATION,
                         "No value found for target column \"Product Handle\""),
             rows |-> <<>>]

\* preProcessBatchJob up to the first iteration of getImportInstructions; an
\* error of buildData leaves it.
PreProcessBatchJob(j) ==
  /\ pc = "idle"
  /\ jobStage[j] = "created"
  /\ LET built == BuildData(csvFile[j])
     IN IF built.error # NoError
          THEN /\ thrown' = [thrown EXCEPT ![j] = built.error]
               /\ jobStage' = [jobStage EXCEPT ![j] = "pre_process_failed"]
               /\ UNCHANGED <<pc, cur, cls, calls>>
          ELSE /\ pc' = "classify"
               /\ cur' = j
               /\ cls' = NewInstructions(built.rows)
               /\ calls' = [getImportInstructions |-> 1, set |-> 0]
               /\ UNCHANGED <<thrown, jobStage>>
  /\ runs' = [runs EXCEPT ![j] = [count |-> @.count + 1, writes |-> 0]]
  /\ UNCHANGED <<now, redis, csvFile, jobContext, stagePos, phase,
                 phaseOps, opPos, classified, stagedAt, startedAt, applied,
                 failedAt, processedCounter, db, tx, finalizing,
                 inflight, lastDel>>
  /\ UNCHANGED persisted
  /\ UNCHANGED <<exportVars, parserVars>>

\* One iteration of the loop of getImportInstructions; an error leaves
\* preProcessBatchJob.
ClassifyRow ==
  /\ pc = "classify"
  /\ cls.pos < Len(cls.csvData)
  /\ LET c == ImportLoopBody(cls)
     IN IF c.error # NoError
          THEN /\ thrown' = [thrown EXCEPT ![cur] = c.error]
               /\ jobStage' = [jobStage EXCEPT ![cur] = "pre_process_failed"]
               /\ pc' = "idle"
               /\ cur' = NoJob
               /\ cls' = NoInstructions
               /\ calls' = NoCalls
          ELSE /\ cls' = c
               /\ UNCHANGED <<jobStage, pc, cur, calls, thrown>>
  /\ UNCHANGED <<now, redis, csvFile, jobContext, stagePos, phase, phaseOps,
                 opPos, classified, stagedAt, startedAt, applied, failedAt,
                 processedCounter, db, tx, finalizing, inflight, lastDel>>
  /\ UNCHANGED <<persisted, runs>>
  /\ UNCHANGED <<exportVars, parserVars>>

\* getImportInstructions returns its four batches.
ClassifyReturn ==
  /\ pc = "classify"
  /\ cls.pos = Len(cls.csvData)
  /\ pc' = "stage"
  /\ stagePos' = 1
  /\ classified' = [classified EXCEPT
                      ![cur] = [op \in OperationType |-> Batch(cls, op)]]
  /\ UNCHANGED <<now, redis, csvFile, jobStage, jobContext, cur, cls, calls,
                 phase, phaseOps, opPos, stagedAt, startedAt, applied,
                 failedAt, thrown, processedCounter, db, tx, finalizing,
                 inflight, lastDel>>
  /\ UNCHANGED <<persisted, runs>>
  /\ UNCHANGED <<exportVars, parserVars>>

\* Staging every batch, the empty ones too.
ShouldStageAlways(rows) == TRUE

\* `results[op]?.length`
ShouldStage(rows) == Len(rows) # 0

\* One iteration of the loop of setImportDataToRedis.
SetImportDataToRedis ==
  /\ pc = "stage"
  /\ stagePos <= Len(ResultKeys)
  /\ LET op == ResultKeys[stagePos]
         rows == Batch(cls, op)
     IN IF ShouldStage(rows)
          THEN /\ redis' = RedisSet(redis, now, RedisKey(cur, op),
                                    JSONStringify(rows), EX)
               /\ calls' = [calls EXCEPT !.set = @ + 1]
               /\ stagedAt' = [stagedAt EXCEPT ![cur] = now]
               /\ runs' = [runs EXCEPT ![cur].writes = @ + 1]
          ELSE UNCHANGED <<redis, calls, stagedAt, runs>>
  /\ stagePos' = stagePos + 1
  /\ UNCHANGED <<now, csvFile, jobStage, jobContext, pc, cur, cls, phase,
                 phaseOps, opPos, classified, startedAt, applied, failedAt,
                 thrown, processedCounter, db, tx, finalizing, inflight,
                 lastDel>>
  /\ UNCHANGED persisted
  /\ UNCHANGED <<exportVars, parserVars>>

\* `Object.keys(ops).reduce((acc, k) => acc + ops[k].length, 0)`
TotalOps(c) ==
  Len(c.productsCreate) + Len(c.variantsCreate)
    + Len(c.productsUpdate) + Len(c.variantsUpdate)

\* The closing batchJobService_.update of preProcessBatchJob.
PreProcessDone ==
  /\ pc = "stage"
  /\ stagePos > Len(ResultKeys)
  /\ jobContext' = [jobContext EXCEPT
                      ![cur] = MergeContext(@, "total", TotalOps(cls))]
  /\ jobStage' = [jobStage EXCEPT ![cur] = "pre_processed"]
  /\ pc' = "idle"
  /\ cur' = NoJob
  /\ cls' = NoInstructions
  /\ stagePos' = 0
  /\ calls' = NoCalls
  /\ runs' = [runs EXCEPT ![cur].writes = @ + 1]
  /\ UNCHANGED <<now, redis, csvFile, phase, phaseOps, opPos, classified,
                 stagedAt, startedAt, applied, failedAt, thrown,
                 processedCounter, db, tx, finalizing, inflight, lastDel>>
  /\ UNCHANGED persisted
  /\ UNCHANGED <<exportVars, parserVars>>

\* -------------------------------------------------------------- processJob
\* processJob enters atomicPhase_ and calls createProducts, which reads its
\* batch from redis.
ProcessJob(j) ==
  /\ pc = "idle"
  /\ jobStage[j] = "pre_processed"
  /\ pc' = "apply"
  /\ cur' = j
  /\ phase' = 1
  /\ phaseOps' = <<GetImportDataFromRedis(redis, now, j, ProcessPhases[1])>>
  /\ opPos' = 0
  /\ tx' = {}
  /\ startedAt' = [startedAt EXCEPT ![j] = now]
  /\ UNCHANGED <<now, redis, csvFile, jobStage, jobContext, cls, stagePos,
                 calls, classified, stagedAt, applied, failedAt, thrown,
                 processedCounter, db, finalizing, inflight, lastDel>>
  /\ UNCHANGED <<persisted, runs>>
  /\ UNCHANGED <<exportVars, parserVars>>

\* productRepo.findOne({ where: { handle } }) inside the transaction.
ProductFound(handle, committed, created) == handle \in committed \cup created

\* Whether the service call of a staged row can succeed at all: creating a
\* variant needs its product.
CanSucceed(op, row, committed, created) ==
  op = VariantCreate =>
    ProductFound(ValueOf(row, "product.handle"), committed, created)

\* An error the entity store raises while a service call runs.
StoreError == [type |-> "QueryFailedError", message |-> "connection terminated"]

\* `catch (e)`: the error a failing service call of a staged row raises. A
\* variant whose product is not found fails on the missing product, every
\* other call on the store.
Caught(op, row, committed, created) ==
  IF CanSucceed(op, row, committed, created) THEN StoreError ELSE TypeError

\* The call made on the entity services for a staged row.
ServiceCall(op, row) ==
  CASE op = ProductCreate ->
         [service |-> "productService.create", id |-> Undefined,
          data |-> TransformProductData(row)]
    [] op = ProductUpdate ->
         [service |-> "productService.update", id |-> ValueOf(row, "product.id"),
          data |-> TransformProductData(row)]
    [] op = VariantCreate ->
         [service |-> "productVariantService.create", id |-> Undefined,
          data |-> TransformVariantData(row)]
    [] op = VariantUpdate ->
         [service |-> "productVariantService.update",
          id |-> ValueOf(row, "variant.id"),
          data |-> TransformVariantData(row)]

\* updateProgress_: the batchJobService_.update calls it issues (not awaited)
\* when the counter has become `counter`. The calls are labelled with k, the
\* number of rows of the job handled so far.
ProgressUpdates(batchJobId, counter, k) ==
  IF counter % BATCH_SIZE # 0
    THEN {}
    ELSE {[job |-> batchJobId, progress |-> counter, by |-> "updateProgress_",
           k |-> k]}

\* handleImportError_ returning the error it built instead of throwing it.
HandleImportErrorReturns(row) == [throws |-> FALSE, error |-> ImportError(row)]

\* handleImportError_, called in the catch block of a service call: it throws,
\* which leaves the loop, the phase and processJob.
HandleImportError(row) == [throws |-> TRUE, error |-> ImportError(row)]

\* updateProgress_ follows the try/catch in createProducts, updateProducts
\* and updateVariants; in createVariants it is inside the try block.
ProgressAfterCatch(op) == op # VariantCreate

\* One iteration of the loop of a phase: the service call for the next staged
\* row, then updateProgress_, or handleImportError_.
ApplyRow ==
  /\ pc = "apply"
  /\ opPos < Len(phaseOps[phase])
  /\ LET op == ProcessPhases[phase]
         row == phaseOps[phase][opPos + 1]
     IN \E succeeds \in BOOLEAN :
          IF succeeds /\ CanSucceed(op, row, db, tx)
            THEN /\ applied' = [applied EXCEPT ![cur] =
                                  Append(@, [op |-> op, pos |-> opPos + 1,
                                             call |-> ServiceCall(op, row)])]
                 /\ tx' = IF op = ProductCreate
                            THEN tx \cup {ValueOf(row, "product.handle")}
                            ELSE tx
                 /\ processedCounter' = processedCounter + 1
                 /\ inflight' = inflight
                      \cup ProgressUpdates(cur, processedCounter + 1,
                                           Len(applied[cur]) + 1)
                 /\ opPos' = opPos + 1
                 /\ UNCHANGED <<jobStage, pc, cur, phase, phaseOps, failedAt,
                                thrown>>
            ELSE IF HandleImportError(row).throws
              THEN /\ thrown' = [thrown EXCEPT
                                   ![cur] = HandleImportError(row).error]
                   /\ failedAt' = [failedAt EXCEPT
                                     ![cur] = [op |-> op, pos |-> opPos + 1,
                                               caught |-> Caught(op, row, db, tx)]]
                   /\ jobStage' = [jobStage EXCEPT ![cur] = "failed"]
                   /\ pc' = "idle"
                   /\ cur' = NoJob
                   /\ phase' = 0
                   /\ phaseOps' = <<>>
                   /\ opPos' = 0
                   /\ tx' = {}
                   /\ UNCHANGED <<applied, processedCounter, inflight>>
              ELSE /\ failedAt' = [failedAt EXCEPT
                                     ![cur] = [op |-> op, pos |-> opPos + 1,
                                               caught |-> Caught(op, row, db, tx)]]
                   /\ IF ProgressAfterCatch(op)
                        THEN /\ processedCounter' = processedCounter + 1
                             /\ inflight' = inflight \cup
                                  ProgressUpdates(cur, processedCounter + 1,
                                                  Len(applied[cur]) + 1)
                        ELSE UNCHANGED <<processedCounter, inflight>>
                   /\ opPos' = opPos + 1
                   /\ UNCHANGED <<jobStage, pc, cur, phase, phaseOps, applied,
                                  thrown, tx>>
  /\ UNCHANGED <<now, redis, csvFile, jobContext, cls, stagePos, calls,
                 classified, stagedAt, startedAt, db, finalizing, lastDel>>
  /\ UNCHANGED <<persisted, runs>>
  /\ UNCHANGED <<exportVars, parserVars>>

\* A phase has handled its batch; processJob calls the next one, which reads
\* its batch from redis.
NextPhase ==
  /\ pc = "apply"
  /\ opPos = Len(phaseOps[phase])
  /\ phase < Len(ProcessPhases)
  /\ phase' = phase + 1
  /\ phaseOps' = Append(phaseOps,
                   GetImportDataFromRedis(redis, now, cur, ProcessPhases[phase + 1]))
  /\ opPos' = 0
  /\ UNCHANGED <<now, redis, csvFile, jobStage, jobContext, pc, cur, cls,
                 stagePos, calls, classified, stagedAt, startedAt, applied,
                 failedAt, thrown, processedCounter, db, tx, finalizing,
                 inflight, lastDel>>
  /\ UNCHANGED <<persisted, runs>>
  /\ UNCHANGED <<exportVars, parserVars>>

\* updateVariants has returned: finalize_ is called (not awaited), the
\* transaction commits and processJob returns.
ProcessJobReturn ==
  /\ pc = "apply"
  /\ opPos = Len(phaseOps[phase])
  /\ phase = Len(ProcessPhases)
  /\ finalizing' = finalizing \cup {cur}
  /\ db' = db \cup tx
  /\ tx' = {}
  /\ jobStage' = [jobStage EXCEPT ![cur] = "processed"]
  /\ pc' = "idle"
  /\ cur' = NoJob
  /\ phase' = 0
  /\ phaseOps' = <<>>
  /\ opPos' = 0
  /\ UNCHANGED <<now, redis, csvFile, jobContext, cls, stagePos, calls,
                 classified, stagedAt, startedAt, applied, failedAt, thrown,
                 processedCounter, inflight, lastDel>>
  /\ UNCHANGED <<persisted, runs>>
  /\ UNCHANGED <<exportVars, parserVars>>

\* finalize_ writing back the progress the job already has.
FinalProgressStale(context) ==
  IF Has(context, "progress") THEN context["progress"] ELSE 0

\* `progress: batchJob.context.total`
FinalProgress(context) == context["total"]

\* finalize_ after its batchJobService_.retrieve: issues the final update.
FinalizeRetrieve(j) ==
  /\ j \in finalizing
  /\ finalizing' = finalizing \ {j}
  /\ inflight' = inflight \cup {[job |-> j, progress |-> FinalProgress(jobContext[j]),
                                 by |-> "finalize_", k |-> Len(applied[j])]}
  /\ UNCHANGED <<now, redis, csvFile, jobStage, jobContext, pc, cur, cls,
                 stagePos, calls, phase, phaseOps, opPos, classified,
                 stagedAt, startedAt, applied, failedAt, thrown,
                 processedCounter, db, tx, lastDel>>
  /\ UNCHANGED <<persisted, runs>>
  /\ UNCHANGED <<exportVars, parserVars>>

\* A pending batchJobService_.update reaches the job store.
BatchJobUpdate(u) ==
  /\ u \in inflight
  /\ inflight' = inflight \ {u}
  /\ jobContext' = [jobContext EXCEPT
                      ![u.job] = MergeContext(@, "progress", u.progress)]
  /\ UNCHANGED <<now, redis, csvFile, jobStage, pc, cur, cls, stagePos, calls,
                 phase, phaseOps, opPos, classified, stagedAt, startedAt,
                 applied, failedAt, thrown, processedCounter, db, tx,
                 finalizing, lastDel>>
  /\ persisted' = [persisted EXCEPT ![u.job] = Append(@, u)]
  /\ UNCHANGED runs
  /\ UNCHANGED <<exportVars, parserVars>>

\* ------------------------------------------------------- clearRedisRecords
ClearRedisRecords(j) ==
  /\ pc = "idle"
  /\ jobStage[j] \in {"processed", "failed"}
  /\ lastDel.job = NoJob
  /\ redis' = RedisDel(redis, ClearKey(j))
  /\ lastDel' = [job |-> j, removed |-> RedisDelCount(redis, now, ClearKey(j))]
  /\ UNCHANGED <<now, csvFile, jobStage, jobContext, pc, cur, cls, stagePos,
                 calls, phase, phaseOps, opPos, classified, stagedAt,
                 startedAt, applied, failedAt, thrown, processedCounter, db,
                 tx, finalizing, inflight>>
  /\ UNCHANGED <<persisted, runs>>
  /\ UNCHANGED <<exportVars, parserVars>>

\* ------------------------------------------------------------------- time
\* Only redis commands read the clock. Time passes between the calls of the
\* strategy and between the phases of processJob; the four writes of
\* setImportDataToRedis are taken to fall into one tick.
AtRedisCommand ==
  \/ pc = "idle"
  \/ pc = "apply" /\ opPos = Len(phaseOps[phase])

Tick ==
  /\ now < MaxTicks * TickSeconds
  /\ AtRedisCommand
  /\ now' = now + TickSeconds
  /\ UNCHANGED <<redis, csvFile, jobStage, jobContext, pc, cur, cls, stagePos,
                 calls, phase, phaseOps, opPos, classified, stagedAt,
                 startedAt, applied, failedAt, thrown, processedCounter, db,
                 tx, finalizing, inflight, lastDel>>
  /\ UNCHANGED <<persisted, runs>>
  /\ UNCHANGED <<exportVars, parserVars>>

\* ---------------------------------------------------------- specifications
Next ==
  \/ \E j \in Jobs : PreProcessBatchJob(j)
  \/ ClassifyRow
  \/ ClassifyReturn
  \/ SetImportDataToRedis
  \/ PreProcessDone
  \/ \E j \in Jobs : ProcessJob(j)
  \/ ApplyRow
  \/ NextPhase
  \/ ProcessJobReturn
  \/ \E j \in Jobs : FinalizeRetrieve(j)
  \/ \E u \in inflight : BatchJobUpdate(u)
  \/ \E j \in Jobs : ClearRedisRecords(j)
  \/ Tick

Spec == Init /\ [][Next]_vars

\* The classifier alone, over every file of at most MaxRows rows.
NextClassify ==
  \/ \E j \in Jobs : PreProcessBatchJob(j)
  \/ ClassifyRow
  \/ ClassifyReturn

SpecClassify == InitClassify /\ [][NextClassify]_vars

\* processedCounter is a field of the strategy object, set to 0 at construction
\* only: a strategy that has committed rows of earlier jobs starts a processJob
\* with the count of those rows.
CounterStarts == {0, BATCH_SIZE - 1, 2 * BATCH_SIZE - 2}

InitProgress ==
  /\ InitCommon
  /\ processedCounter \in CounterStarts
  /\ NoExport
  /\ NoParser
  /\ csvFile \in Files(SeqsUpTo(CommitRows, MaxRows),
                       {<<ParsedRow("shirt", "", "", TRUE,
                                    <<CurrencyPrice("110", "DKK")>>)>>})

\* Staging and commit with their progress writes, the clock standing still.
NextProgress ==
  \/ \E j \in Jobs : PreProcessBatchJob(j)
  \/ ClassifyRow
  \/ ClassifyReturn
  \/ SetImportDataToRedis
  \/ PreProcessDone
  \/ \E j \in Jobs : ProcessJob(j)
  \/ ApplyRow
  \/ NextPhase
  \/ ProcessJobReturn
  \/ \E j \in Jobs : FinalizeRetrieve(j)
  \/ \E u \in inflight : BatchJobUpdate(u)

SpecProgress == InitProgress /\ [][NextProgress]_vars

\* Number of preProcessBatchJob calls made for one job.
MaxRuns == 2

\* Rows of files that stage or fail: a new product with its variant, a known
\* product with a known variant, a price for a region that does not exist,
\* and an empty Product Handle.
NewShirtRow == ParsedRow("shirt", "", "", TRUE, <<CurrencyPrice("110", "DKK")>>)
KnownShirtRow ==
  ParsedRow("shirt", "prod_1", "variant_1", TRUE, <<RegionPrice("130", "denmark")>>)
FranceRow ==
  ParsedRow("shirt", "", "", TRUE,
            <<CurrencyPrice("110", "DKK"), RegionPrice("100", "france")>>)
NoHandleRow == ParsedRow("", "", "", TRUE, <<>>)
StageRows == {NewShirtRow, KnownShirtRow, FranceRow, NoHandleRow}

\* The files a job is given when it is handed to preProcessBatchJob again.
LaterFiles == {<<NewShirtRow>>, <<KnownShirtRow>>, <<FranceRow>>}

InitStage ==
  /\ InitCommon
  /\ FreshStrategy
  /\ NoExport
  /\ NoParser
  /\ csvFile \in Files(SeqsUpTo(StageRows, MaxRows), {<<NewShirtRow>>})

\* The download stream of the job's fileKey yields another file, and the job
\* is handed to preProcessBatchJob again.
Reupload(j) ==
  /\ pc = "idle"
  /\ jobStage[j] = "pre_processed"
  /\ runs[j].count < MaxRuns
  /\ \E file \in LaterFiles : csvFile' = [csvFile EXCEPT ![j] = file]
  /\ jobStage' = [jobStage EXCEPT ![j] = "created"]
  /\ UNCHANGED <<now, redis, jobContext, pc, cur, cls, stagePos, calls, phase,
                 phaseOps, opPos, classified, stagedAt, startedAt, applied,
                 failedAt, thrown, processedCounter, db, tx, finalizing,
                 inflight, lastDel>>
  /\ UNCHANGED <<persisted, runs>>
  /\ UNCHANGED <<exportVars, parserVars>>

\* Pre-processing alone, over files that stage and files that fail, the
\* clock standing still.
NextStage ==
  \/ \E j \in Jobs : PreProcessBatchJob(j)
  \/ ClassifyRow
  \/ ClassifyReturn
  \/ SetImportDataToRedis
  \/ PreProcessDone
  \/ \E j \in Jobs : Reupload(j)

SpecStage == InitStage /\ [][NextStage]_vars

\* =================================================== ProductExportStrategy
\* Number of products in the catalog of the listing service.
MaxProducts == 2

\* Number of files the model lets the export open: one per processJob call.
MaxUploads == 3

\* `private readonly BATCH_SIZE = 50` of the export strategy.
EXPORT_BATCH_SIZE == 50

ExportJobs == {"exp_1", "exp_2"}

\* Text is a sequence of characters; a run of characters that holds neither
\* the delimiter nor the line end is written as one element.
DELIMITER_ == ";"
NEWLINE_ == "\r\n"
Str(word) == <<word>>
EmptyString == <<>>

\* Array.prototype.join on texts.
RECURSIVE Join(_, _)
Join(texts, separator) ==
  IF texts = <<>> THEN EmptyString
  ELSE IF Len(texts) = 1 THEN texts[1]
  ELSE texts[1] \o <<separator>> \o Join(Tail(texts), separator)

\* The fields a reader finds on a line: the text up to the line end, cut at
\* every delimiter.
RECURSIVE SplitAt(_, _, _)
SplitAt(text, separator, field) ==
  IF text = <<>> THEN <<field>>
  ELSE IF text[1] = separator
    THEN <<field>> \o SplitAt(Tail(text), separator, EmptyString)
    ELSE SplitAt(Tail(text), separator, Append(field, text[1]))

Fields(line) ==
  SplitAt(IF line # <<>> /\ line[Len(line)] = NEWLINE_
            THEN SubSeq(line, 1, Len(line) - 1) ELSE line,
          DELIMITER_, EmptyString)

\* String.prototype.toUpperCase / toLowerCase on the words of the catalog.
UpperCase ==
  [w \in {"dkk", "usd", "DKK", "USD"} |->
     IF w \in {"dkk", "DKK"} THEN "DKK" ELSE "USD"]
LowerCase ==
  [w \in {"Denmark", "denmark", "REG_DK", "reg_dk", "dkk", "DKK", "usd", "USD"} |->
     CASE w \in {"Denmark", "denmark"} -> "denmark"
       [] w \in {"REG_DK", "reg_dk"} -> "reg_dk"
       [] w \in {"dkk", "DKK"} -> "dkk"
       [] w \in {"usd", "USD"} -> "usd"]
ToUpperCase(w) == UpperCase[w]
ToLowerCase(w) == LowerCase[w]

\* ----------------------------------------------------- products of a shop
RegionDK == [id |-> "reg_dk", name |-> "Denmark", currency_code |-> "dkk"]

\* Money amounts: of a currency, of a region, and of a region without a
\* currency code of its own.
CurrencyAmount(code, amount) == [currency_code |-> code, amount |-> amount]
RegionAmount(region, amount) ==
  [currency_code |-> region.currency_code, region |-> region, amount |-> amount]
RegionOnlyAmount(region, amount) == [region |-> region, amount |-> amount]

Variant(id, values, prices) ==
  [id |-> id, options |-> [i \in DOMAIN values |-> [value |-> values[i]]],
   prices |-> prices]

ProductOf(id, handle, titles, urls, variants) ==
  [id |-> id, handle |-> handle,
   options |-> [i \in DOMAIN titles |-> [title |-> titles[i]]],
   images |-> [i \in DOMAIN urls |-> [url |-> urls[i]]],
   variants |-> variants]

Shirt ==
  ProductOf("prod_1", "shirt", <<Str("Size")>>, <<"img_1">>,
            <<Variant("variant_1", <<Str("S")>>, <<CurrencyAmount("dkk", 110)>>)>>)
\* Two variants priced in one currency, no option, no image.
Pants ==
  ProductOf("prod_2", "test-product-product-2", <<>>, <<>>,
            <<Variant("variant_2", <<>>, <<CurrencyAmount("dkk", 110)>>),
              Variant("variant_3", <<>>, <<CurrencyAmount("dkk", 120)>>)>>)
\* Two options, one of its values holding the delimiter; region and currency
\* prices.
Hat ==
  ProductOf("prod_3", "hat", <<Str("Size"), Str("Color")>>, <<>>,
            <<Variant("variant_4", <<<<"S", ";", "M">>, Str("red")>>,
                      <<RegionAmount(RegionDK, 130),
                        CurrencyAmount("usd", 20)>>)>>)
\* Two images; a variant without prices and one priced for a region only.
Sock ==
  ProductOf("prod_4", "sock", <<>>, <<"img_2", "img_3">>,
            <<Variant("variant_5", <<>>, <<>>),
              Variant("variant_6", <<>>, <<RegionOnlyAmount(RegionDK, 30)>>)>>)

Products == {Shirt, Pants, Hat, Sock}

\* The listings of at most n different products.
Listings(n) ==
  {s \in SeqsUpTo(Products, n) : \A i, k \in DOMAIN s : i # k => s[i] # s[k]}

\* ------------------------------------------------------- listing service
\* productService_.list(selector, { skip, take }): a page of the listing.
ListProducts(listing, skip, take) ==
  SubSeq(listing, skip + 1,
         IF skip + take < Len(listing) THEN skip + take ELSE Len(listing))

\* productService_.listAndCount: the page, and the number of products the
\* selector finds whatever skip and take are.
ListAndCount(listing, skip, take) ==
  [products |-> ListProducts(listing, skip, take), count |-> Len(listing)]

\* --------------------------------------------- preProcessBatchJob (export)
\* Math.max keeping the count of the product at hand.
MathMaxLatest(a, b) == b

MathMax(a, b) == IF a >= b THEN a ELSE b

\* The object preProcessBatchJob stringifies for a price; JSON.stringify
\* leaves out a key whose value is undefined.
PriceData(price) ==
  LET code == IF Has(price, "currency_code") THEN price.currency_code
              ELSE IF Has(price, "region") THEN price.region.currency_code
              ELSE Undefined
      withCode == IF code = Undefined THEN <<>> ELSE [currency_code |-> code]
  IN IF Has(price, "region")
       THEN IF code = Undefined
              THEN [region |-> [name |-> price.region.name, id |-> price.region.id]]
              ELSE [currency_code |-> code,
                    region |-> [name |-> price.region.name, id |-> price.region.id]]
       ELSE withCode

\* pricesData.add on an array, which keeps what it is given twice.
ArrayPush(set, text) == Append(set, text)

\* Set.prototype.add: a Set keeps its values in insertion order, once each.
SetAdd(set, text) ==
  IF \E i \in DOMAIN set : set[i] = text THEN set ELSE Append(set, text)

RECURSIVE AddPrices(_, _)
AddPrices(pricesData, prices) ==
  IF prices = <<>> THEN pricesData
  ELSE AddPrices(SetAdd(pricesData, PriceData(prices[1])), Tail(prices))

RECURSIVE AddVariants(_, _)
AddVariants(pricesData, variants) ==
  IF variants = <<>> THEN pricesData
  ELSE AddVariants(AddPrices(pricesData, variants[1].prices), Tail(variants))

\* The body of `for (const product of products)`.
ScanProduct(l, product) ==
  [l EXCEPT
     !.dynamicOptionColumnCount = MathMax(@, Len(product.options)),
     !.dynamicImageColumnCount = MathMax(@, Len(product.images)),
     !.pricesData = AddVariants(@, product.variants)]

RECURSIVE ScanProducts(_, _)
ScanProducts(l, products) ==
  IF products = <<>> THEN l
  ELSE ScanProducts(ScanProduct(l, products[1]), Tail(products))

\* The locals of preProcessBatchJob before its loop.
NewDiscovery(listing, list_config) ==
  LET first == ListAndCount(listing, list_config.skip, list_config.take)
  IN [offset |-> list_config.skip, limit |-> EXPORT_BATCH_SIZE,
      productCount |-> first.count, products |-> first.products,
      dynamicOptionColumnCount |-> 0, dynamicImageColumnCount |-> 0,
      pricesData |-> <<>>, pages |-> 0]

\* One iteration of `while (offset < productCount)`, `listed` being what
\* productService_.list answers when the iteration calls it.
DiscoveryIteration(l, listed) ==
  LET products == IF l.products = <<>> THEN listed ELSE l.products
      scanned == ScanProducts(l, products)
  IN [scanned EXCEPT !.offset = @ + Len(products), !.products = <<>>,
                     !.pages = @ + 1]

\* The iteration when the service answers with the page asked for.
DiscoveryLoopBody(l, listing) ==
  DiscoveryIteration(l, ListProducts(listing, l.offset, l.limit))

\* The shape written to the job context.
ShapeOf(l) ==
  [dynamicImageColumnCount |-> l.dynamicImageColumnCount,
   dynamicOptionColumnCount |-> l.dynamicOptionColumnCount,
   prices |-> l.pricesData]

RECURSIVE RunDiscovery(_, _)
RunDiscovery(l, listing) ==
  IF l.offset < l.productCount
    THEN RunDiscovery(DiscoveryLoopBody(l, listing), listing)
    ELSE ShapeOf(l)

DiscoverShape(listing, list_config) ==
  RunDiscovery(NewDiscovery(listing, list_config), listing)

\* ------------------------------------------------------ column descriptors
\* A descriptor is a column name with an entityName and an accessor; the map
\* is the sequence of its entries in insertion order.
Descriptor(name, entityName, accessor) ==
  [name |-> name, entityName |-> entityName, accessor |-> accessor]

\* productExportSchemaDescriptors: the columns every export has.
StaticDescriptors ==
  <<Descriptor("Product id", "product", [kind |-> "field", field |-> "id"]),
    Descriptor("Product Handle", "product", [kind |-> "field", field |-> "handle"]),
    Descriptor("Variant id", "variant", [kind |-> "field", field |-> "id"])>>

\* Map.prototype.set: a new key goes last, a known key keeps its place and
\* takes the new value.
MapSet(map, descriptor) ==
  IF \E i \in DOMAIN map : map[i].name = descriptor.name
    THEN [i \in DOMAIN map |->
            IF map[i].name = descriptor.name THEN descriptor ELSE map[i]]
    ELSE Append(map, descriptor)

\* `priceData.region?.id ? "(" + priceData.region?.id + ")" : ""`
RegionIdSuffix(priceData) ==
  IF Has(priceData, "region") /\ priceData.region.id # ""
    THEN "(" \o priceData.region.id \o ")" ELSE ""

\* The body of the loop of appendMoneyAmountDescriptors.
AppendMoneyAmountDescriptor(map, priceData) ==
  LET withCurrency ==
        IF Truthy(priceData, "currency_code")
          THEN MapSet(map,
                 Descriptor("Price " \o ToUpperCase(priceData.currency_code)
                              \o " " \o RegionIdSuffix(priceData),
                            "variant",
                            [kind |-> "currencyPrice", priceData |-> priceData]))
          ELSE map
  IN IF Has(priceData, "region")
       THEN MapSet(withCurrency,
              Descriptor("Price " \o ToLowerCase(priceData.region.name)
                           \o " " \o RegionIdSuffix(priceData),
                         "variant",
                         [kind |-> "regionPrice", priceData |-> priceData]))
       ELSE withCurrency

RECURSIVE AppendMoneyAmountDescriptors(_, _)
AppendMoneyAmountDescriptors(map, pricesData) ==
  IF pricesData = <<>> THEN map
  ELSE AppendMoneyAmountDescriptors(
         AppendMoneyAmountDescriptor(map, pricesData[1]), Tail(pricesData))

\* appendOptionsDescriptors, its loop run from slot i on (slots count from 1
\* here, `i + 1` in the code).
RECURSIVE AppendOptionsDescriptors(_, _, _)
AppendOptionsDescriptors(map, i, maxOptionsCount) ==
  IF i > maxOptionsCount THEN map
  ELSE AppendOptionsDescriptors(
         MapSet(MapSet(map,
                  Descriptor("Option " \o ToString(i) \o " Name", "product",
                             [kind |-> "optionName", i |-> i])),
                Descriptor("Option " \o ToString(i) \o " Value", "variant",
                           [kind |-> "optionValue", i |-> i])),
         i + 1, maxOptionsCount)

RECURSIVE AppendImagesDescriptors(_, _, _)
AppendImagesDescriptors(map, i, maxImagesCount) ==
  IF i > maxImagesCount THEN map
  ELSE AppendImagesDescriptors(
         MapSet(map, Descriptor("Image " \o ToString(i) \o " Url", "product",
                                [kind |-> "image", i |-> i])),
         i + 1, maxImagesCount)

\* buildHeader: the map it leaves behind and the header line it returns.
BuildHeader(map, shape) ==
  LET extended ==
        AppendImagesDescriptors(
          AppendOptionsDescriptors(
            AppendMoneyAmountDescriptors(map, shape.prices),
            1, shape.dynamicOptionColumnCount),
          1, shape.dynamicImageColumnCount)
  IN [columnDescriptors |-> extended,
      header |-> Join([i \in DOMAIN extended |-> Str(extended[i].name)],
                      DELIMITER_) \o <<NEWLINE_>>]

\* The callback of `variant.prices.find` of a currency column.
CurrencyColumnFinds(variantPrice, priceData) ==
  LET byCurrency ==
        IF Truthy(variantPrice, "currency_code")
          THEN /\ ~Has(priceData, "region")
               /\ ToLowerCase(variantPrice.currency_code)
                    = ToLowerCase(priceData.currency_code)
          ELSE FALSE
  IN IF Has(variantPrice, "region")
       THEN /\ Has(priceData, "region")
            /\ ToLowerCase(variantPrice.region.name)
                 = ToLowerCase(priceData.region.name)
            /\ ToLowerCase(variantPrice.region.id)
                 = ToLowerCase(priceData.region.id)
       ELSE byCurrency

\* The callback of `variant.prices.find` of a region column.
RegionColumnFinds(variantPrice, priceData) ==
  /\ Has(variantPrice, "region")
  /\ Has(priceData, "region")
  /\ ToLowerCase(variantPrice.region.name) = ToLowerCase(priceData.region.name)
  /\ ToLowerCase(variantPrice.region.id) = ToLowerCase(priceData.region.id)

\* `price?.amount?.toString() ?? ""` for the first price the callback finds.
FoundAmount(prices, found) ==
  IF found = {} THEN EmptyString
  ELSE Str(ToString(prices[CHOOSE i \in found : \A k \in found : i <= k].amount))

\* The accessor of a descriptor, applied to a product or a variant.
Accessor(accessor, entity) ==
  CASE accessor.kind = "field" -> Str(entity[accessor.field])
    [] accessor.kind = "image" ->
         IF accessor.i <= Len(entity.images)
           THEN Str(entity.images[accessor.i].url) ELSE EmptyString
    [] accessor.kind = "optionName" ->
         IF accessor.i <= Len(entity.options)
           THEN entity.options[accessor.i].title ELSE EmptyString
    [] accessor.kind = "optionValue" ->
         IF accessor.i <= Len(entity.options)
           THEN entity.options[accessor.i].value ELSE EmptyString
    [] accessor.kind = "currencyPrice" ->
         FoundAmount(entity.prices,
           {i \in DOMAIN entity.prices :
              CurrencyColumnFinds(entity.prices[i], accessor.priceData)})
    [] accessor.kind = "regionPrice" ->
         FoundAmount(entity.prices,
           {i \in DOMAIN entity.prices :
              RegionColumnFinds(entity.prices[i], accessor.priceData)})

\* The value a column has for a product and one of its variants.
ColumnValue(descriptor, product, variant) ==
  Accessor(descriptor.accessor,
           IF descriptor.entityName = "product" THEN product ELSE variant)

\* The line buildProductVariantLines builds for one variant.
VariantLine(map, product, variant) ==
  Join([i \in DOMAIN map |-> ColumnValue(map[i], product, variant)],
       DELIMITER_) \o <<NEWLINE_>>

\* One line per product, its first variant's.
BuildProductLine(map, product) ==
  IF product.variants = <<>> THEN <<>>
  ELSE <<VariantLine(map, product, product.variants[1])>>

BuildProductVariantLines(map, product) ==
  [v \in DOMAIN product.variants |-> VariantLine(map, product, product.variants[v])]

\* ------------------------------------------------------ export job store
CANCELED == "canceled"

NoRun == [fileKey |-> 0, start |-> 0, found |-> <<>>, pages |-> 0]
NotCanceled == [at |-> "", pages |-> 0, wpos |-> 0]

\* A job as prepareBatchJobForProcessing leaves it. `stage` follows the calls
\* of the strategy for the job, `run` describes its last processJob call and
\* `canceledAt` the moment its cancellation was requested.
NewExportJob(skip, take) ==
  [status |-> "created", stage |-> "created",
   context |-> [list_config |-> [skip |-> skip, take |-> take]],
   result |-> <<>>, run |-> NoRun, canceledAt |-> NotCanceled]

\* batchJobService_.update(id, { result }): the given keys are merged into
\* the stored result.
MergeResult(result, update) ==
  [k \in DOMAIN result \cup DOMAIN update |->
     IF k \in DOMAIN update THEN update[k] ELSE result[k]]

\* `advancementCount / productCount`, kept as the two numbers.
Quotient(a, b) == [dividend |-> a, divisor |-> b]

\* A resumed processJob starting over.
ResumeFromStart(result) == 0

\* `batchJob.result?.advancement_count ?? advancementCount`
ResumeAdvancement(result) ==
  IF Has(result, "advancement_count") THEN result["advancement_count"] ELSE 0

\* The count persisted for a page taken before the page is added to it.
PageAdvancementBefore(l) == l.advancementCount

\* `advancementCount += products.length`
PageAdvancement(l) == l.advancementCount + Len(l.products)

\* The result persisted after a page.
PageResult(l) ==
  [file_key |-> l.fileKey, count |-> l.productCount,
   advancement_count |-> PageAdvancement(l),
   progress |-> Quotient(PageAdvancement(l), l.productCount)]

\* The result processJob hands to handleProcessingError.
ErrorResult(l) ==
  [count |-> l.productCount, advancement_count |-> l.advancementCount,
   progress |-> Quotient(l.advancementCount, l.productCount)]

\* ---------------------------------------------------------- file service
\* getUploadStreamDescriptor: a new file, with what is written to its stream.
NewUpload(job) ==
  [job |-> job, writes |-> <<>>, ended |-> FALSE, deleted |-> FALSE,
   resolved |-> FALSE]
StreamWrite(file, chunks) == [file EXCEPT !.writes = @ \o chunks]
StreamEnd(file) == [file EXCEPT !.ended = TRUE]
\* A delete that leaves the file in place.
FileKept(file) == file
\* fileService_.delete({ key })
FileDelete(file) == [file EXCEPT !.deleted = TRUE]
\* `await promise`: the upload is complete.
UploadResolve(file) == [file EXCEPT !.resolved = TRUE]

\* ------------------------------------------------------------ export init
\* The import strategy is not called.
NoImport ==
  /\ InitCommon
  /\ FreshStrategy
  /\ csvFile = [j \in Jobs |-> <<>>]

ListConfigs == {[skip |-> s, take |-> t] : s \in {0, 1}, t \in {1, 2}}

InitExport ==
  /\ NoImport
  /\ NoParser
  /\ catalog \in Listings(MaxProducts)
  /\ exportJob \in
       {[j \in ExportJobs |->
           IF j = "exp_1" THEN NewExportJob(c.skip, c.take)
           ELSE NewExportJob(0, EXPORT_BATCH_SIZE)] : c \in ListConfigs}
  /\ columnDescriptors = StaticDescriptors
  /\ epc = "idle"
  /\ ecur = NoJob
  /\ eloc = <<>>
  /\ uploads = <<>>

\* --------------------------------------------- preProcessBatchJob (export)
\* preProcessBatchJob up to its loop.
ExportPreProcessBatchJob(j) ==
  /\ epc = "idle"
  /\ exportJob[j].stage = "created"
  /\ epc' = "discover"
  /\ ecur' = j
  /\ eloc' = NewDiscovery(catalog, exportJob[j].context.list_config)
  /\ UNCHANGED <<catalog, exportJob, columnDescriptors, uploads>>
  /\ UNCHANGED <<importVars, parserVars>>

\* One iteration of its loop.
DiscoverPage ==
  /\ epc = "discover"
  /\ eloc.offset < eloc.productCount
  /\ eloc' = DiscoveryLoopBody(eloc, catalog)
  /\ UNCHANGED <<catalog, exportJob, columnDescriptors, epc, ecur, uploads>>
  /\ UNCHANGED <<importVars, parserVars>>

\* The loop is left and the shape written to the job context.
DiscoverDone ==
  /\ epc = "discover"
  /\ ~(eloc.offset < eloc.productCount)
  /\ exportJob' = [exportJob EXCEPT
                     ![ecur].context = SetKey(@, "shape", ShapeOf(eloc)),
                     ![ecur].stage = "pre_processed"]
  /\ epc' = "idle"
  /\ ecur' = NoJob
  /\ eloc' = <<>>
  /\ UNCHANGED <<catalog, columnDescriptors, uploads>>
  /\ UNCHANGED <<importVars, parserVars>>

\* ----------------------------------------------------- processJob (export)
\* processJob up to its loop: the upload stream, the header, the point to
\* resume from and the first page.
ExportProcessJob(j) ==
  /\ epc = "idle"
  /\ exportJob[j].stage \in {"pre_processed", "failed"}
  /\ exportJob[j].status # CANCELED
  /\ Len(uploads) < MaxUploads
  /\ LET batchJob == exportJob[j]
         built == BuildHeader(columnDescriptors, batchJob.context.shape)
         fileKey == Len(uploads) + 1
         advancementCount == ResumeAdvancement(batchJob.result)
         list_config == batchJob.context.list_config
         offset == list_config.skip + advancementCount
         limit == IF Has(list_config, "take") THEN list_config.take
                                                ELSE EXPORT_BATCH_SIZE
         first == ListAndCount(catalog, offset, limit)
     IN /\ columnDescriptors' = built.columnDescriptors
        /\ uploads' = Append(uploads, StreamWrite(NewUpload(j), <<built.header>>))
        /\ eloc' = [offset |-> offset, limit |-> limit,
                    advancementCount |-> advancementCount,
                    productCount |-> first.count, products |-> first.products,
                    fileKey |-> fileKey, wpos |-> 0, pages |-> 0,
                    saved |-> batchJob.result]
        /\ exportJob' = [exportJob EXCEPT
                           ![j].stage = "processing",
                           ![j].run = [fileKey |-> fileKey, start |-> offset,
                                       found |-> batchJob.result,
                                       pages |-> 0]]
  /\ epc' = "page"
  /\ ecur' = j
  /\ UNCHANGED catalog
  /\ UNCHANGED <<importVars, parserVars>>

\* `if (!products?.length) products = await list(...)`, `listed` being what
\* the service answers.
PageAtHand(l, listed) ==
  [l EXCEPT !.products = IF @ = <<>> THEN listed ELSE @, !.wpos = 0]

\* The head of an iteration of `while (offset < productCount)`: the page is
\* the one at hand, or is listed.
FetchPage ==
  /\ epc = "page"
  /\ eloc.offset < eloc.productCount
  /\ eloc' = PageAtHand(eloc, ListProducts(catalog, eloc.offset, eloc.limit))
  /\ epc' = "write"
  /\ UNCHANGED <<catalog, exportJob, columnDescriptors, ecur, uploads>>
  /\ UNCHANGED <<importVars, parserVars>>

\* The listing call of an iteration throws: the transaction is rolled back
\* and handleProcessingError is given the counts reached.
ListFails ==
  /\ epc = "page"
  /\ eloc.offset < eloc.productCount
  /\ eloc.products = <<>>
  /\ exportJob' = [exportJob EXCEPT
                     ![ecur].result = MergeResult(eloc.saved, ErrorResult(eloc)),
                     ![ecur].stage = "failed"]
  /\ epc' = "idle"
  /\ ecur' = NoJob
  /\ eloc' = <<>>
  /\ UNCHANGED <<catalog, columnDescriptors, uploads>>
  /\ UNCHANGED <<importVars, parserVars>>

\* The lines of the next product of the page are written.
WriteProduct ==
  /\ epc = "write"
  /\ eloc.wpos < Len(eloc.products)
  /\ uploads' = [uploads EXCEPT
                   ![eloc.fileKey] =
                     StreamWrite(@, BuildProductVariantLines(
                                      columnDescriptors,
                                      eloc.products[eloc.wpos + 1]))]
  /\ eloc' = [eloc EXCEPT !.wpos = @ + 1]
  /\ UNCHANGED <<catalog, exportJob, columnDescriptors, epc, ecur>>
  /\ UNCHANGED <<importVars, parserVars>>

\* The page is written: the result is persisted and the status the update
\* returns is tested.
PersistPage ==
  /\ epc = "write"
  /\ eloc.wpos = Len(eloc.products)
  /\ LET canceled == exportJob[ecur].status = CANCELED
     IN /\ exportJob' = [exportJob EXCEPT
                           ![ecur].result = MergeResult(@, PageResult(eloc)),
                           ![ecur].run.pages = @ + 1,
                           ![ecur].stage = IF canceled THEN "stopped" ELSE @]
        /\ IF canceled
             THEN /\ uploads' = [uploads EXCEPT
                                   ![eloc.fileKey] = FileDelete(StreamEnd(@))]
                  /\ epc' = "idle"
                  /\ ecur' = NoJob
                  /\ eloc' = <<>>
             ELSE /\ eloc' = [eloc EXCEPT
                                !.advancementCount = @ + Len(eloc.products),
                                !.offset = @ + Len(eloc.products),
                                !.products = <<>>,
                                !.wpos = 0,
                                !.pages = @ + 1]
                  /\ epc' = "page"
                  /\ UNCHANGED <<ecur, uploads>>
  /\ UNCHANGED <<catalog, columnDescriptors>>
  /\ UNCHANGED <<importVars, parserVars>>

\* The loop is left: the stream is ended and the upload awaited.
ExportComplete ==
  /\ epc = "page"
  /\ ~(eloc.offset < eloc.productCount)
  /\ uploads' = [uploads EXCEPT ![eloc.fileKey] = UploadResolve(StreamEnd(@))]
  /\ exportJob' = [exportJob EXCEPT ![ecur].stage = "done"]
  /\ epc' = "idle"
  /\ ecur' = NoJob
  /\ eloc' = <<>>
  /\ UNCHANGED <<catalog, columnDescriptors>>
  /\ UNCHANGED <<importVars, parserVars>>

\* The job is canceled by its owner while processJob runs.
Cancel(j) ==
  /\ j = ecur
  /\ epc \in {"page", "write"}
  /\ exportJob[j].status # CANCELED
  /\ exportJob' = [exportJob EXCEPT
                     ![j].status = CANCELED,
                     ![j].canceledAt = [at |-> epc, pages |-> eloc.pages,
                                        wpos |-> eloc.wpos]]
  /\ UNCHANGED <<catalog, columnDescriptors, epc, ecur, eloc, uploads>>
  /\ UNCHANGED <<importVars, parserVars>>

NextExport ==
  \/ \E j \in ExportJobs : ExportPreProcessBatchJob(j)
  \/ DiscoverPage
  \/ DiscoverDone
  \/ \E j \in ExportJobs : ExportProcessJob(j)
  \/ FetchPage
  \/ ListFails
  \/ WriteProduct
  \/ PersistPage
  \/ ExportComplete
  \/ \E j \in ExportJobs : Cancel(j)

SpecExport == InitExport /\ [][NextExport]_vars

\* ------------------------------------------- a listing that answers short
\* Number of iterations a paging loop is followed for.
MaxPages == 3

\* What productService_.list may answer while products are removed from the
\* catalog after the count was taken: the page asked for, a shorter page, or
\* an empty one.
ListAnswers(listing, skip, take) ==
  {SubSeq(ListProducts(listing, skip, take), 1, n) :
     n \in 0..Len(ListProducts(listing, skip, take))}

\* One iteration of the loop of preProcessBatchJob, whatever the service
\* answers.
DiscoverPageAnswered ==
  /\ epc = "discover"
  /\ eloc.offset < eloc.productCount
  /\ eloc.pages < MaxPages
  /\ \E listed \in ListAnswers(catalog, eloc.offset, eloc.limit) :
       eloc' = DiscoveryIteration(eloc, listed)
  /\ UNCHANGED <<catalog, exportJob, columnDescriptors, epc, ecur, uploads>>
  /\ UNCHANGED <<importVars, parserVars>>

\* The head of an iteration of the loop of processJob, whatever the service
\* answers.
FetchPageAnswered ==
  /\ epc = "page"
  /\ eloc.offset < eloc.productCount
  /\ eloc.pages < MaxPages
  /\ \E listed \in ListAnswers(catalog, eloc.offset, eloc.limit) :
       eloc' = PageAtHand(eloc, listed)
  /\ epc' = "write"
  /\ UNCHANGED <<catalog, exportJob, columnDescriptors, ecur, uploads>>
  /\ UNCHANGED <<importVars, parserVars>>

\* The two paging loops over a listing that may answer short.
NextPaging ==
  \/ \E j \in ExportJobs : ExportPreProcessBatchJob(j)
  \/ DiscoverPageAnswered
  \/ DiscoverDone
  \/ \E j \in ExportJobs : ExportProcessJob(j)
  \/ FetchPageAnswered
  \/ WriteProduct
  \/ PersistPage
  \/ ExportComplete

SpecPaging == InitExport /\ [][NextPaging]_vars

\* ================================================================ CSVSchema
\* Largest N of the 'Option N Name' and 'Option N Value' columns of a line.
MaxOptions == 2

\* `text.slice(0, -n)`
SliceEnd(text, n) == IF Len(text) > n THEN SubSeq(text, 1, Len(text) - n) ELSE ""

\* Whether a text holds a part somewhere: the match of a regex without
\* anchors.
Includes(text, part) ==
  \E i \in 1..(Len(text) - Len(part) + 1) :
    SubSeq(text, i, i + Len(part) - 1) = part

\* `\d+`, for the numbers a header uses.
Numerals == {ToString(n) : n \in 0..9}

\* `/Option \d+ Name/` and `/Option \d+ Value/`
MatchOptionName(key) ==
  \E d \in Numerals : Includes(key, "Option " \o d \o " Name")
MatchOptionValue(key) ==
  \E d \in Numerals : Includes(key, "Option " \o d \o " Value")

\* `builtLine[key] = builtLine[key] || []`
OrEmptyArray(row, key) == IF Has(row, key) THEN row ELSE SetKey(row, key, <<>>)

\* The reducer of the Option Name columns.
OptionNameReducer(row, key, value, context) ==
  LET started == OrEmptyArray(row, "product.options")
  IN IF value = Undefined
       THEN started
       ELSE SetKey(started, "product.options",
                   Append(started["product.options"], [title |-> value]))

\* The reducer of the Option Value columns taking the title from the option
\* built last, not from the raw line.
OptionValueReducerFromBuilt(row, key, value, context) ==
  LET started == OrEmptyArray(row, "variant.options")
      titles == IF Has(row, "product.options") THEN row["product.options"] ELSE <<>>
  IN IF value = Undefined
       THEN started
       ELSE SetKey(started, "variant.options",
                   Append(started["variant.options"],
                          [value |-> value,
                           _title |-> IF titles = <<>> THEN Undefined
                                      ELSE titles[Len(titles)].title]))

\* The reducer of the Option Value columns.
OptionValueReducer(row, key, value, context) ==
  LET started == OrEmptyArray(row, "variant.options")
  IN IF value = Undefined
       THEN started
       ELSE SetKey(started, "variant.options",
                   Append(started["variant.options"],
                          [value |-> value,
                           _title |-> ValueOf(context.line,
                                              SliceEnd(key, 6) \o " Name")]))

\* The raw line by header name, as the parser hands it to a reducer.
LineByName(raw) ==
  [name \in Range(raw.header) |->
     raw.cells[CHOOSE i \in DOMAIN raw.header : raw.header[i] = name]]

\* buildData for one column of a line: the descriptor of that name, or else
\* the first one in schema order whose regex matches, is applied.
BuildColumn(row, raw, i) ==
  LET key == raw.header[i]
      value == raw.cells[i]
      context == [line |-> LineByName(raw)]
  IN IF key = "Product Handle" THEN SetKey(row, "product.handle", value)
     ELSE IF MatchOptionName(key) THEN OptionNameReducer(row, key, value, context)
     ELSE IF MatchOptionValue(key) THEN OptionValueReducer(row, key, value, context)
     ELSE row

\* The header names of a file with option columns up to N = n, and the cells
\* of its line.
OptionNameColumn(n) == "Option " \o ToString(n) \o " Name"
OptionValueColumn(n) == "Option " \o ToString(n) \o " Value"
OptionTitles == <<"Size", "Color", "Fit">>
OptionValues == <<"S", "red", "slim">>

RECURSIVE OptionColumns(_)
OptionColumns(n) ==
  IF n = 0 THEN <<"Product Handle">>
  ELSE OptionColumns(n - 1) \o <<OptionNameColumn(n), OptionValueColumn(n)>>

CellOf(name) ==
  IF name = "Product Handle" THEN "shirt"
  ELSE LET n == CHOOSE k \in 1..Len(OptionTitles) :
                  name \in {OptionNameColumn(k), OptionValueColumn(k)}
       IN IF name = OptionNameColumn(n) THEN OptionTitles[n] ELSE OptionValues[n]

\* The lines of the files whose columns come in any order.
Lines ==
  {[header |-> [i \in DOMAIN OptionColumns(MaxOptions) |->
                  OptionColumns(MaxOptions)[f[i]]],
    cells |-> [i \in DOMAIN OptionColumns(MaxOptions) |->
                 CellOf(OptionColumns(MaxOptions)[f[i]])]] :
     f \in Permutations(DOMAIN OptionColumns(MaxOptions))}

\* The product createProducts has created of a row: an option of its own id
\* for each title of the row.
CreatedProduct(row) ==
  [handle |-> row["product.handle"],
   options |-> [i \in DOMAIN row["product.options"] |->
                  [title |-> row["product.options"][i].title,
                   id |-> "opt_" \o row["product.options"][i].title]]]

\* `product.options.find((o) => o.title === title)`: its position, 0 for
\* undefined.
FindOption(product, title) ==
  LET found == {i \in DOMAIN product.options : product.options[i].title = title}
  IN IF found = {} THEN 0 ELSE CHOOSE i \in found : \A k \in found : i <= k

\* createVariants, lines 411 to 425: the options of the variant handed to
\* productVariantService_.create, or the TypeError of reading `.id` of
\* undefined.
VariantOptions(variantOp, product) ==
  LET variant == TransformVariantData(variantOp)
      titles == IF Has(variantOp, "product.options")
                  THEN variantOp["product.options"] ELSE <<>>
      missing == {i \in DOMAIN titles : FindOption(product, titles[i].title) = 0}
      optionIds == [i \in DOMAIN titles |->
                      product.options[FindOption(product, titles[i].title)].id]
  IN IF missing # {}
       THEN [error |-> TypeError, options |-> <<>>, done |-> TRUE]
       ELSE [error |-> NoError,
             options |->
               IF Has(variant, "options")
                 THEN [i \in DOMAIN variant["options"] |->
                         [value |-> variant["options"][i].value,
                          _title |-> variant["options"][i]._title,
                          option_id |-> IF i \in DOMAIN optionIds
                                          THEN optionIds[i] ELSE Undefined]]
                 ELSE <<>>,
             done |-> TRUE]

InitParse ==
  /\ NoImport
  /\ NoExport
  /\ csvLine \in Lines
  /\ column = 0
  /\ builtLine = <<>>
  /\ createdVariant = NoVariant

\* The parser reduces the next column of the line.
ReduceColumn ==
  /\ column < Len(csvLine.header)
  /\ builtLine' = BuildColumn(builtLine, csvLine, column + 1)
  /\ column' = column + 1
  /\ UNCHANGED <<csvLine, createdVariant>>
  /\ UNCHANGED <<importVars, exportVars>>

\* createVariants gives the options of the built row their option ids.
AssignOptionIds ==
  /\ column = Len(csvLine.header)
  /\ ~createdVariant.done
  /\ createdVariant' = VariantOptions(builtLine, CreatedProduct(builtLine))
  /\ UNCHANGED <<csvLine, column, builtLine>>
  /\ UNCHANGED <<importVars, exportVars>>

NextParse ==
  \/ ReduceColumn
  \/ AssignOptionIds

SpecParse == InitParse /\ [][NextParse]_vars

\* ------------------------------------------------------------------ claims
\* The phase order the specification states.
StatedPhaseOrder == <<ProductCreate, ProductUpdate, VariantCreate, VariantUpdate>>
StatedPhase(op) == CHOOSE k \in 1..Len(StatedPhaseOrder) : StatedPhaseOrder[k] = op

\* The batch the running processJob read for an operation type, if it has.
HasRead(op) == \E k \in 1..Len(phaseOps) : ProcessPhases[k] = op
ReadBatch(op) == phaseOps[CHOOSE k \in 1..Len(phaseOps) : ProcessPhases[k] = op]

\* (phase, position) of a staged row comes before that of another.
RowBefore(a, b) ==
  \/ StatedPhase(a.op) < StatedPhase(b.op)
  \/ StatedPhase(a.op) = StatedPhase(b.op) /\ a.pos < b.pos

\* A job whose staging has completed.
IsStaged(j) == jobStage[j] \in {"pre_processed", "processed", "failed"}

\* C1: in processJob the service calls come in the order create-products,
\* update-products, create-variants, update-variants: when a row of a phase
\* is applied, every row that each earlier phase read has been applied
\* before it.
C1_PhaseOrder ==
  cur # NoJob =>
    \A k \in 1..Len(applied[cur]) :
      LET e == applied[cur][k]
      IN /\ \A m \in 1..(k - 1) : RowBefore(applied[cur][m], e)
         /\ \A q \in 1..(StatedPhase(e.op) - 1) :
              /\ HasRead(StatedPhaseOrder[q])
              /\ Cardinality({m \in 1..(k - 1) :
                                applied[cur][m].op = StatedPhaseOrder[q]})
                   = Len(ReadBatch(StatedPhaseOrder[q]))

\* A commit that applied a product creation, a variant creation and a
\* variant update.
C1_Witness ==
  \E j \in Jobs :
    /\ Len(applied[j]) = 3
    /\ {applied[j][k].op : k \in 1..3} = {ProductCreate, VariantCreate, VariantUpdate}

\* C2: once the service call of a staged row has failed in processJob, the
\* job has raised the diagnostic invalid-data error, the calls applied are
\* only those of rows before the failed one, and finalize_ is never called:
\* no final progress write is pending or issued.
C2_FailFast ==
  \A j \in Jobs :
    failedAt[j] # NoRow =>
      /\ jobStage[j] = "failed"
      /\ thrown[j].type = INVALID_DATA
      /\ \A k \in 1..Len(applied[j]) : RowBefore(applied[j][k], failedAt[j])
      /\ j \notin finalizing
      /\ \A u \in inflight : ~(u.job = j /\ u.by = "finalize_")
      /\ ~Has(jobContext[j], "progress")

\* A commit that failed on its first variant creation, after a call that
\* succeeded and with rows still to apply.
C2_Witness ==
  \E j \in Jobs :
    /\ failedAt[j].op = VariantCreate
    /\ failedAt[j].pos = 1
    /\ Len(applied[j]) = 1
    /\ jobContext[j]["total"] > 2

\* Handles of the rows of a file.
HandlesOf(csvData) == {csvData[i]["product.handle"] : i \in 1..Len(csvData)}

Returned == pc = "stage"

\* C3: when getImportInstructions returns, the number of product-level
\* operations equals the number of distinct handles of the input, and the
\* number of variant-level operations equals the number of rows.
C3_DedupCounts ==
  Returned =>
    /\ Len(cls.productsCreate) + Len(cls.productsUpdate)
         = Cardinality(HandlesOf(cls.csvData))
    /\ Len(cls.variantsCreate) + Len(cls.variantsUpdate) = Len(cls.csvData)

InSeq(x, seq) == \E k \in 1..Len(seq) : seq[k] = x

\* C4: a row routed to a product batch is in product-update when it carries
\* a product id (the "product.id" the schema maps 'Product id' to) and in
\* product-create when it does not.
C4_RouteByProductId ==
  Returned =>
    \A i \in 1..Len(cls.csvData) :
      /\ InSeq(i, cls.productsUpdate) => Truthy(cls.csvData[i], "product.id")
      /\ InSeq(i, cls.productsCreate) => ~Truthy(cls.csvData[i], "product.id")

StrictlyIncreasing(seq) == \A a, b \in 1..Len(seq) : a < b => seq[a] < seq[b]

Carries(p, key) == Has(p, key) /\ p[key] \notin {"", Undefined}

\* C6: every price of every row classified so far carries a region id or a
\* currency code, and not both.
C6_PriceExclusive ==
  \A i \in 1..cls.pos :
    \A k \in 1..Len(cls.csvData[i]["variant.prices"]) :
      LET p == cls.csvData[i]["variant.prices"][k]
      IN Carries(p, "region_id") <=> ~Carries(p, "currency_code")

\* A classified row with a region price and a currency price.
C6_Witness ==
  /\ Returned
  /\ \E i \in 1..cls.pos :
       LET prices == cls.csvData[i]["variant.prices"]
       IN /\ Len(prices) = 2
          /\ Carries(prices[1], "region_id")
          /\ Carries(prices[2], "currency_code")

StagingLoopDone == pc = "stage" /\ stagePos > Len(ResultKeys)

NonEmptyTypes(c) == {op \in OperationType : Len(BatchRefs(c, op)) > 0}

\* C7: when setImportDataToRedis has gone through the batches, redis was
\* written once per non-empty batch and not for an empty one, the job has an
\* entry exactly for its non-empty batches, and getImportInstructions was
\* called once.
C7_OneWritePerBatch ==
  StagingLoopDone =>
    /\ calls.set = Cardinality(NonEmptyTypes(cls))
    /\ \A op \in OperationType :
         ("pij_" \o cur \o ":" \o op) \in DOMAIN redis <=> op \in NonEmptyTypes(cls)
    /\ calls.getImportInstructions = 1

\* A pre-process run with two non-empty and two empty batches.
C7_Witness ==
  /\ StagingLoopDone
  /\ calls.set = 2
  /\ NonEmptyTypes(cls) = {ProductCreate, VariantCreate}

\* The TTL of the entries of a staged job has not elapsed.
WithinTTL(j) == now < stagedAt[j] + EX

\* C8: a read returns the batch staged for that job and operation type while
\* the entry is live, and the empty sequence when nothing was staged or the
\* TTL has elapsed.
C8_ReadBack ==
  \A j \in Jobs : \A op \in OperationType :
    (IsStaged(j) \/ (jobStage[j] \in {"created", "pre_process_failed"} /\ j # cur))
      => GetImportDataFromRedis(redis, now, j, op)
           = IF IsStaged(j) /\ WithinTTL(j) THEN classified[j][op] ELSE <<>>

\* The entries of job_1 have expired, those of job_2 are live, and both
\* staged variant creations.
C8_Witness ==
  /\ IsStaged("job_1") /\ IsStaged("job_2")
  /\ ~WithinTTL("job_1") /\ WithinTTL("job_2")
  /\ classified["job_1"][VariantCreate] # <<>>
  /\ GetImportDataFromRedis(redis, now, "job_2", VariantCreate) # <<>>

\* C9: after clearRedisRecords(job) a read of any operation type of that job
\* returns the empty sequence.
C9_ClearRemoves ==
  lastDel.job # NoJob =>
    \A op \in OperationType :
      GetImportDataFromRedis(redis, now, lastDel.job, op) = <<>>

\* A job was staged and processJob was called when its TTL had elapsed.
CommittedAfterTTL(j) ==
  stagedAt[j] >= 0 /\ startedAt[j] >= stagedAt[j] + EX

\* C10: a processJob called after the TTL of the job's entries has elapsed
\* applies nothing and raises no error.
C10_ExpiredCommit ==
  \A j \in Jobs :
    CommittedAfterTTL(j) =>
      /\ applied[j] = <<>>
      /\ failedAt[j] = NoRow
      /\ thrown[j] = NoError
      /\ jobStage[j] # "failed"

\* Such a processJob has returned for a job that staged three operations.
C10_Witness ==
  \E j \in Jobs :
    /\ CommittedAfterTTL(j)
    /\ jobStage[j] = "processed"
    /\ jobContext[j]["total"] = 3

\* The progress updates of a job: those issued and those applied.
ProgressWrites(j, by) ==
  {u \in inflight \cup Range(persisted[j]) : u.job = j /\ u.by = by}

\* C11: during the commit of a job, updateProgress_ persists progress after
\* the k-th handled row of that job only when k is a multiple of BATCH_SIZE,
\* and the value it persists is k.
C11_Cadence ==
  \A j \in Jobs : \A u \in ProgressWrites(j, "updateProgress_") :
    /\ u.k % BATCH_SIZE = 0
    /\ u.progress = u.k

\* The number of final progress writes of a job: called, issued or applied.
FinalWrites(j) ==
  (IF j \in finalizing THEN 1 ELSE 0)
    + Cardinality({u \in inflight : u.job = j /\ u.by = "finalize_"})
    + Cardinality({i \in DOMAIN persisted[j] : persisted[j][i].by = "finalize_"})

\* C12: a processJob that ran its four phases without an error makes one
\* final progress write, after the phases, and its value is the job's total;
\* a job that has not got there makes none.
C12_FinalProgress ==
  \A j \in Jobs :
    /\ FinalWrites(j) = (IF jobStage[j] = "processed" THEN 1 ELSE 0)
    /\ \A u \in ProgressWrites(j, "finalize_") :
         /\ u.progress = jobContext[j]["total"]
         /\ u.k = Len(applied[j])

\* A job of three operations is processed and its final write has reached the
\* job context.
C12_Witness ==
  \E j \in Jobs :
    /\ jobStage[j] = "processed"
    /\ Len(applied[j]) = 3
    /\ \E i \in DOMAIN persisted[j] :
         persisted[j][i].by = "finalize_" /\ persisted[j][i].progress = 3
    /\ jobContext[j]["progress"] = 3

\* ------------------------------------------------------------ export claims
Smaller(a, b) == IF a <= b THEN a ELSE b
Largest(S) == IF S = {} THEN 0 ELSE CHOOSE m \in S : \A x \in S : m >= x

\* The products a job lists: the catalog from list_config.skip on.
SkipOf(j) == exportJob[j].context.list_config.skip
TakeOf(j) == exportJob[j].context.list_config.take
Skipped(j) == SubSeq(catalog, 1, Smaller(SkipOf(j), Len(catalog)))
Listed(j) == SubSeq(catalog, SkipOf(j) + 1, Len(catalog))
HasShape(j) == Has(exportJob[j].context, "shape")
ShapeFound(j) == exportJob[j].context.shape

\* Every price of every variant of the given products.
PricesOf(products) ==
  UNION {UNION {{<<i, v, p>> : p \in DOMAIN products[i].variants[v].prices} :
                  v \in DOMAIN products[i].variants} :
           i \in DOMAIN products}
PriceAt(products, at) == products[at[1]].variants[at[2]].prices[at[3]]

\* C13: the shape preProcessBatchJob writes has the largest number of options
\* and the largest number of images over the listed products, and its price
\* list holds every price key found on a variant of them, once each.
C13_ShapeOfListing ==
  \A j \in ExportJobs :
    HasShape(j) =>
      LET shape == ShapeFound(j)
          listed == Listed(j)
      IN /\ shape.dynamicOptionColumnCount
              = Largest({Len(listed[i].options) : i \in DOMAIN listed})
         /\ shape.dynamicImageColumnCount
              = Largest({Len(listed[i].images) : i \in DOMAIN listed})
         /\ Range(shape.prices)
              = {PriceData(PriceAt(listed, at)) : at \in PricesOf(listed)}
         /\ \A i, k \in DOMAIN shape.prices :
              i # k => shape.prices[i] # shape.prices[k]

\* A shape found over products that differ in their numbers of options and
\* of images, one without any, and that share a price key.
C13_Witness ==
  \E j \in ExportJobs :
    /\ HasShape(j)
    /\ \E i, k \in DOMAIN Listed(j) :
         /\ Len(Listed(j)[i].options) = 0
         /\ Len(Listed(j)[i].images) = 0
         /\ Len(Listed(j)[k].options) > 0
         /\ Len(Listed(j)[k].images) > 0
    /\ Cardinality(PricesOf(Listed(j))) > Len(ShapeFound(j).prices)
    /\ ShapeFound(j).dynamicOptionColumnCount > 0

\* The orders in which a sequence can be given.
Reorderings(seq) ==
  {[i \in DOMAIN seq |-> seq[f[i]]] :
     f \in {g \in [DOMAIN seq -> DOMAIN seq] :
              \A a, b \in DOMAIN seq : a # b => g[a] # g[b]}}

\* C14: whatever the order in which the listing service returns the listed
\* products, discovery finds the same two counts and the same set of prices.
C14_OrderIndependent ==
  \A j \in ExportJobs :
    HasShape(j) =>
      \A reordered \in Reorderings(Listed(j)) :
        LET other == DiscoverShape(Skipped(j) \o reordered,
                                   exportJob[j].context.list_config)
        IN /\ other.dynamicOptionColumnCount
                = ShapeFound(j).dynamicOptionColumnCount
           /\ other.dynamicImageColumnCount
                = ShapeFound(j).dynamicImageColumnCount
           /\ Range(other.prices) = Range(ShapeFound(j).prices)

\* A shape found page by page over products of which the one listed first has
\* the most options, and whose prices come in another order when the listing
\* is reordered.
C14_Witness ==
  \E j \in ExportJobs :
    /\ HasShape(j)
    /\ Len(Listed(j)) >= 2
    /\ TakeOf(j) = 1
    /\ Len(Listed(j)[1].options) > Len(Listed(j)[Len(Listed(j))].options)
    /\ \E reordered \in Reorderings(Listed(j)) :
         DiscoverShape(Skipped(j) \o reordered,
                       exportJob[j].context.list_config).prices
           # ShapeFound(j).prices

\* The last processJob call of a job, its file, and what the job result
\* recorded when the call began.
RunOf(j) == exportJob[j].run
FileOf(j) == uploads[RunOf(j).fileKey]
RecordedAt(j) ==
  IF Has(RunOf(j).found, "advancement_count")
    THEN RunOf(j).found["advancement_count"] ELSE 0

\* The place in the catalog where the pages persisted by the call end.
PagesEnd(j) ==
  IF RunOf(j).pages = 0 THEN RunOf(j).start
  ELSE Smaller(RunOf(j).start + RunOf(j).pages * TakeOf(j), Len(catalog))

\* The data lines of a file, and the product and variant each one is for: its
\* fields under the columns "Product id" and "Variant id".
DataLines(file) == Tail(file.writes)
IdPairs(file) ==
  [i \in DOMAIN DataLines(file) |->
     <<Fields(DataLines(file)[i])[1], Fields(DataLines(file)[i])[3]>>]

\* The (product, variant) pairs of the given products, in order.
RECURSIVE ExpectedPairs(_)
ExpectedPairs(products) ==
  IF products = <<>> THEN <<>>
  ELSE [v \in DOMAIN products[1].variants |->
          <<Str(products[1].id), Str(products[1].variants[v].id)>>]
       \o ExpectedPairs(Tail(products))

PairsBetween(from, to) == ExpectedPairs(SubSeq(catalog, from + 1, to))

\* C15: a processJob that finds its job canceled after page k has written the
\* lines of the pages up to k and no other, has ended and deleted its file,
\* has returned without the upload being resolved, and leaves the
\* advancement_count of page k in the job result.
C15_CancelAfterPage ==
  \A j \in ExportJobs :
    exportJob[j].stage = "stopped" =>
      /\ ecur # j
      /\ FileOf(j).ended
      /\ FileOf(j).deleted
      /\ ~FileOf(j).resolved
      /\ IdPairs(FileOf(j)) = PairsBetween(RunOf(j).start, PagesEnd(j))
      /\ exportJob[j].result["advancement_count"]
           = RecordedAt(j) + (PagesEnd(j) - RunOf(j).start)

\* A job stopped after its first page, with products left to write.
C15_Witness ==
  \E j \in ExportJobs :
    /\ exportJob[j].stage = "stopped"
    /\ RunOf(j).pages = 1
    /\ PagesEnd(j) < Len(catalog)
    /\ IdPairs(FileOf(j)) # <<>>

\* C16: a cancellation requested while a page is being written is acted on
\* only when that page is written in full and its progress persisted: until
\* then processJob goes on writing the page, and when it stops, the file
\* holds whole pages and the job result counts them all.
C16_PageBoundary ==
  \A j \in ExportJobs :
    (exportJob[j].status = CANCELED /\ exportJob[j].canceledAt.at = "write") =>
      \/ /\ exportJob[j].stage = "processing"
         /\ ecur = j
         /\ epc = "write"
         /\ eloc.pages = exportJob[j].canceledAt.pages
         /\ ~FileOf(j).ended
      \/ /\ exportJob[j].stage = "stopped"
         /\ RunOf(j).pages = exportJob[j].canceledAt.pages + 1
         /\ IdPairs(FileOf(j)) = PairsBetween(RunOf(j).start, PagesEnd(j))
         /\ exportJob[j].result["advancement_count"]
              = RecordedAt(j) + (PagesEnd(j) - RunOf(j).start)

\* A job canceled when one product of a page of two was written, and stopped
\* with both products written and counted.
C16_Witness ==
  \E j \in ExportJobs :
    /\ exportJob[j].stage = "stopped"
    /\ exportJob[j].canceledAt = [at |-> "write", pages |-> 0, wpos |-> 1]
    /\ PagesEnd(j) - RunOf(j).start = 2
    /\ exportJob[j].result["advancement_count"] = 2

\* The products whose lines a call has written so far.
WrittenEnd(j) ==
  PagesEnd(j) + (IF ecur = j /\ epc = "write" THEN eloc.wpos ELSE 0)

\* C17: processJob starts at list_config.skip plus the advancement_count the
\* job result held, writes the products from there on and none before, and
\* what it persists is that count plus the products of the pages it wrote.
C17_Resume ==
  \A j \in ExportJobs :
    exportJob[j].stage \in {"processing", "stopped", "done"} =>
      /\ RunOf(j).start = SkipOf(j) + RecordedAt(j)
      /\ IdPairs(FileOf(j)) = PairsBetween(RunOf(j).start, WrittenEnd(j))
      /\ RunOf(j).pages > 0 =>
           exportJob[j].result["advancement_count"]
             = RecordedAt(j) + (PagesEnd(j) - RunOf(j).start)

\* A job that failed after its first page is run again and completes, having
\* written the remaining product only.
C17_Witness ==
  \E j \in ExportJobs :
    /\ exportJob[j].stage = "done"
    /\ RecordedAt(j) = 1
    /\ RunOf(j).pages = 1
    /\ Len(catalog) = SkipOf(j) + 2
    /\ IdPairs(FileOf(j)) # <<>>
    /\ exportJob[j].result["advancement_count"] = 2

\* C18: a processJob that leaves its loop has written the header and then one
\* line for every variant of every product from its start to the count, in
\* the order of the listing, and has ended the stream and resolved the upload.
C18_Completion ==
  \A j \in ExportJobs :
    exportJob[j].stage = "done" =>
      /\ FileOf(j).ended
      /\ FileOf(j).resolved
      /\ ~FileOf(j).deleted
      /\ Fields(FileOf(j).writes[1])[1] = Str("Product id")
      /\ IdPairs(FileOf(j)) = PairsBetween(RunOf(j).start, Len(catalog))

\* A complete export of two pages, one of them with a product of two variants.
C18_Witness ==
  \E j \in ExportJobs :
    /\ exportJob[j].stage = "done"
    /\ RunOf(j).pages = 2
    /\ Len(IdPairs(FileOf(j))) >= 3
    /\ \E i \in DOMAIN catalog : i > RunOf(j).start /\ catalog[i] = Pants

\* C19: the header of a file has, after the static columns, two columns per
\* option slot of the job's shape, one per image slot and one per entry of
\* its price list.
C19_HeaderColumns ==
  \A f \in DOMAIN uploads :
    LET shape == ShapeFound(uploads[f].job)
    IN Len(Fields(uploads[f].writes[1])) - Len(StaticDescriptors)
         = 2 * shape.dynamicOptionColumnCount
             + shape.dynamicImageColumnCount + Len(shape.prices)

\* C20: every data line of a file has as many fields as its header has
\* column names.
C20_LineFields ==
  \A f \in DOMAIN uploads :
    \A i \in DOMAIN DataLines(uploads[f]) :
      Len(Fields(DataLines(uploads[f])[i])) = Len(Fields(uploads[f].writes[1]))


\* The rule each kind of price column is to resolve a price entry by: a
\* currency column by the code of an entry without a region, a region column
\* by the name and the id of the entry's region.
StatedColumnRule(kind, variantPrice, priceData) ==
  IF kind = "currencyPrice"
    THEN /\ ~Has(variantPrice, "region")
         /\ Truthy(variantPrice, "currency_code")
         /\ ToLowerCase(variantPrice.currency_code)
              = ToLowerCase(priceData.currency_code)
    ELSE /\ Has(variantPrice, "region")
         /\ Has(priceData, "region")
         /\ ToLowerCase(variantPrice.region.name)
              = ToLowerCase(priceData.region.name)
         /\ ToLowerCase(variantPrice.region.id)
              = ToLowerCase(priceData.region.id)

PriceColumns ==
  {i \in DOMAIN columnDescriptors :
     columnDescriptors[i].accessor.kind \in {"currencyPrice", "regionPrice"}}

VariantsOf(products) ==
  UNION {Range(products[i].variants) : i \in DOMAIN products}

\* C21: a price column yields, for every variant, the amount of the first
\* price entry its own rule matches (a currency column: an entry without a
\* region and of the column's currency; a region column: an entry of the
\* column's region name and id), and the empty string when there is none.
C21_PriceColumns ==
  \A i \in PriceColumns :
    \A variant \in VariantsOf(catalog) :
      LET accessor == columnDescriptors[i].accessor
      IN Accessor(accessor, variant)
           = FoundAmount(variant.prices,
               {p \in DOMAIN variant.prices :
                  StatedColumnRule(accessor.kind, variant.prices[p],
                                   accessor.priceData)})


\* ----------------------------------------------------- pre-process failures
\* A row that makes pre-processing fail: its Product Handle is empty, or one
\* of its prices names a region the store does not have.
UnknownRegions(row) ==
  IF Has(row, "variant.prices")
    THEN {i \in DOMAIN row["variant.prices"] :
            /\ HasRegionName(row["variant.prices"][i])
            /\ row["variant.prices"][i].regionName \notin DOMAIN RegionIdByName}
    ELSE {}
EmptyHandle(row) == row["product.handle"] = ""
BadRow(row) == EmptyHandle(row) \/ UnknownRegions(row) # {}
HasBadRow(file) == \E i \in DOMAIN file : BadRow(file[i])
Least(S) == CHOOSE m \in S : \A x \in S : m <= x

\* The error a file with a bad row is to fail with.
FailureOf(file) ==
  IF \E i \in DOMAIN file : EmptyHandle(file[i])
    THEN [type |-> SCHEMA_VALIDATION, names |-> ""]
    ELSE LET row == file[Least({i \in DOMAIN file : BadRow(file[i])})]
         IN [type |-> INVALID_DATA,
             names |-> row["variant.prices"][Least(UnknownRegions(row))].regionName]

\* C22: a preProcessBatchJob call for a file with a bad row, at whatever
\* position, writes no staging entry and no total: it ends failed, with a
\* schema-validation error for an empty Product Handle or an invalid-data
\* error naming the missing region, and a job that had nothing staged before
\* has no staging entry and no total afterwards.
C22_FailedPreProcess ==
  \A j \in Jobs :
    (HasBadRow(csvFile[j]) /\ (cur = j \/ jobStage[j] # "created")) =>
      /\ runs[j].writes = 0
      /\ cur # j => jobStage[j] = "pre_process_failed"
      /\ jobStage[j] = "pre_process_failed" =>
           /\ thrown[j].type = FailureOf(csvFile[j]).type
           /\ thrown[j].type = INVALID_DATA =>
                thrown[j].message
                  = "Trying to set a price for a region "
                      \o FailureOf(csvFile[j]).names \o " that doesn't exist"
      /\ runs[j].count = 1 =>
           /\ \A op \in OperationType : RedisKey(j, op) \notin DOMAIN redis
           /\ ~Has(jobContext[j], "total")

\* A file of two rows failed on its second row, for a region that does not
\* exist, after its first row was classified.
C22_Witness ==
  \E j \in Jobs :
    /\ jobStage[j] = "pre_process_failed"
    /\ Len(csvFile[j]) = 2
    /\ ~BadRow(csvFile[j][1])
    /\ UnknownRegions(csvFile[j][2]) # {}
    /\ thrown[j].type = INVALID_DATA


\* C23: when the service call of a staged row fails on an error of the entity
\* store, processJob throws that error, with its type and its message.
C23_StoreErrorPropagates ==
  \A j \in Jobs :
    (jobStage[j] = "failed" /\ failedAt[j].caught = StoreError) =>
      thrown[j] = StoreError


\* ------------------------------------------------------------ parser claims
\* The line is built: every column has been reduced.
Built == column = Len(csvLine.header) /\ csvLine # NoLine

\* The Option Value columns of the line in file order, as their numbers N.
ValueNumbers(raw) ==
  LET at == {i \in DOMAIN raw.header :
               \E n \in 1..MaxOptions : raw.header[i] = OptionValueColumn(n)}
      Rank(i) == Cardinality({k \in at : k <= i})
  IN [r \in 1..Cardinality(at) |->
        LET i == CHOOSE k \in at : Rank(k) = r
        IN CHOOSE n \in 1..MaxOptions : raw.header[i] = OptionValueColumn(n)]

\* The raw cell of a column of the line.
RawCell(raw, name) ==
  raw.cells[CHOOSE i \in DOMAIN raw.header : raw.header[i] = name]

\* C24: in the built row, the variant option made of column 'Option N Value'
\* has the raw value of that column as its value and the raw value of column
\* 'Option N Name' as its title, for every N and every order of the columns.
C24_OptionTitle ==
  Built =>
    /\ Len(builtLine["variant.options"]) = Len(ValueNumbers(csvLine))
    /\ \A r \in DOMAIN ValueNumbers(csvLine) :
         LET n == ValueNumbers(csvLine)[r]
         IN /\ builtLine["variant.options"][r].value
                 = RawCell(csvLine, OptionValueColumn(n))
            /\ builtLine["variant.options"][r]._title
                 = RawCell(csvLine, OptionNameColumn(n))

\* A built line whose first column is 'Option 2 Value' and whose last one is
\* 'Option 2 Name'.
C24_Witness ==
  /\ Built
  /\ csvLine.header[1] = OptionValueColumn(2)
  /\ csvLine.header[Len(csvLine.header)] = OptionNameColumn(2)
  /\ builtLine["variant.options"][1]._title = OptionTitles[2]

\* C25: every option of the variant createVariants creates has the id of the
\* option of the created product whose title is the title of that option
\* value, for every order of the columns.
C25_OptionIds ==
  createdVariant.done =>
    /\ createdVariant.error = NoError
    /\ \A i \in DOMAIN createdVariant.options :
         LET o == createdVariant.options[i]
             product == CreatedProduct(builtLine)
         IN \E k \in DOMAIN product.options :
              /\ product.options[k].title = o._title
              /\ product.options[k].id = o.option_id


\* C26: the total preProcessBatchJob writes into the job context is the sum
\* of the lengths of the four batches it classified, which is the number of
\* rows of the file plus the number of distinct product handles in it.
C26_TotalOps ==
  \A j \in Jobs :
    Has(jobContext[j], "total") =>
      /\ jobContext[j]["total"]
           = Len(classified[j][ProductCreate]) + Len(classified[j][ProductUpdate])
               + Len(classified[j][VariantCreate])
               + Len(classified[j][VariantUpdate])
      /\ jobContext[j]["total"]
           = Len(csvFile[j]) + Cardinality(HandlesOf(csvFile[j]))


\* The operations a commit would read for a job.
StagedOps(j) == [op \in OperationType |-> GetImportDataFromRedis(redis, now, j, op)]

\* C27: when a preProcessBatchJob call for a job has completed, a read of
\* each operation type returns the batch this call classified, the empty
\* sequence for an empty batch, also when an earlier call for the same job
\* staged entries; the operations read number the total this call wrote.
C27_ThisRunOnly ==
  \A j \in Jobs :
    jobStage[j] = "pre_processed" =>
      /\ \A op \in OperationType : StagedOps(j)[op] = classified[j][op]
      /\ Len(StagedOps(j)[ProductCreate]) + Len(StagedOps(j)[ProductUpdate])
           + Len(StagedOps(j)[VariantCreate]) + Len(StagedOps(j)[VariantUpdate])
           = jobContext[j]["total"]


\* C28: every progress value stored in the context of a job is at most the
\* number of rows of that job handled when it was written, and at most the
\* total of the job.
C28_ProgressOfJob ==
  \A j \in Jobs :
    /\ \A i \in DOMAIN persisted[j] :
         /\ persisted[j][i].progress <= persisted[j][i].k
         /\ persisted[j][i].progress <= jobContext[j]["total"]
    /\ Has(jobContext[j], "progress") =>
         jobContext[j]["progress"] <= jobContext[j]["total"]


\* A processJob of the job has returned and every progress write made for the
\* job has been applied.
WritesLanded(j) ==
  /\ jobStage[j] = "processed"
  /\ j \notin finalizing
  /\ \A u \in inflight : u.job # j

\* C29: when processJob has returned without an error and the progress writes
\* of the job have all been applied, the write applied last is the one of
\* finalize_, and the progress stored is the job's total.
C29_FinalWriteLast ==
  \A j \in Jobs :
    WritesLanded(j) =>
      /\ persisted[j] # <<>>
      /\ persisted[j][Len(persisted[j])].by = "finalize_"
      /\ jobContext[j]["progress"] = jobContext[j]["total"]


\* The columns of a job of its own: the static ones and those of its shape.
OwnColumns(j) == BuildHeader(StaticDescriptors, ShapeFound(j))

\* C30: the header of a file is the one built of the static columns and the
\* shape of the file's job alone, and every data line is the line of a
\* variant under those columns, whichever jobs were exported before.
C30_OwnColumnsOnly ==
  \A f \in DOMAIN uploads :
    LET own == OwnColumns(uploads[f].job)
    IN /\ uploads[f].writes[1] = own.header
       /\ \A i \in DOMAIN DataLines(uploads[f]) :
            \E p \in DOMAIN catalog : \E v \in DOMAIN catalog[p].variants :
              DataLines(uploads[f])[i]
                = VariantLine(own.columnDescriptors, catalog[p],
                              catalog[p].variants[v])


\* ------------------------------------------------------------ paging claims
\* The offset a paging loop of the running call started at.
LoopStart ==
  IF epc = "discover" THEN SkipOf(ecur) ELSE RunOf(ecur).start

\* The most iterations the loop is to take: the products from its start
\* offset to the count.
LoopBound ==
  IF eloc.productCount > LoopStart THEN eloc.productCount - LoopStart ELSE 0

\* C31: in both paging loops every iteration made so far has increased the
\* offset by one at least, and the iterations number at most the count less
\* the start offset, whatever the listing service answered.
C31_LoopsTerminate ==
  epc \in {"discover", "page"} =>
    /\ eloc.offset >= LoopStart + eloc.pages
    /\ eloc.pages <= LoopBound

============================================================================
